---------------------------- MODULE Spec2Model ----------------------------
(***************************************************************************)
(* kj-utils: the skew heap (include/kj/detail/skew_heap_impl.hpp) and the  *)
(* object pool that can back it (kj/detail/object_pool.hpp).               *)
(*                                                                         *)
(* Heap objects are the elements of Heaps; tree nodes live in a store of   *)
(* addresses Node, with NULL the null pointer.  A node's fields are        *)
(* key[n], left[n], right[n]; allocd is the set of addresses obtained      *)
(* from `new Node` and not yet deleted.                                    *)
(***************************************************************************)
EXTENDS Integers, Sequences, FiniteSets

\* ------------------------------------------------------------------ bounds
MaxNodes == 4
MaxKey == 2
MaxPush == 3
MaxSlots == 6
MaxInitCap == 2
MaxCreates == 3
MaxReserve == 2
MaxBlocks == 30
MaxArenaBlocks == 2
MaxArenaNodes == 2
MaxReserveNodes == 1
MaxArenaMerges == 1
MaxUnderflow == 1
DsuN == 4
MaxSnapshots == 2
MaxGuards == 3
MaxFailBlocks == 2
MaxThreadOps == 4

\* ------------------------------------------------------- program constants
\* ObjectPool(std::size_t initial_block_capacity = 4096)
DefaultBlockCapacity == 4096
\* grow_: next_block_cap_ < (static_cast<std::size_t>(1) << 28)
BlockCapShift == 28

NULL == 0
Node == 1..MaxNodes
Keys == 1..MaxKey
Heaps == {1, 2}

VARIABLES
    cmpKind,    \* the Comp template argument: "less" or "greater"
    alive,      \* alive[h]: heap object h is constructed and not destroyed
    root,       \* root[h] = root_
    sz,         \* sz[h] = sz_
    key,        \* key[n] = n->key
    left,       \* left[n] = n->left
    right,      \* right[n] = n->right
    allocd,     \* addresses handed out by new and not yet deleted
    contents,   \* history: contents[h][k] = number of copies of k stored in h
    op,         \* history: the last heap call: name, heap, argument (or the value
                \* read), and the size of the other heap before a merge or move
    kpush,      \* history: kpush[h] = push/emplace calls made on h
    jpop,       \* history: jpop[h] = pop calls made on h
    pool,       \* an ObjectPool<T>: blocks_, free_, next_block_cap_, total_slots_, live_
    heapTop,    \* the highest slot address ::operator new[] has handed out so far
    handles,    \* history: the handles create() returned and destroy() has not taken back
    ncreate,    \* history: create() calls made
    mdestroy,   \* history: destroy() calls made on live handles
    pcall,      \* history: the last pool call
    build,      \* "debug": assert() is compiled in; "ndebug": NDEBUG is defined
    sizes,      \* the block sizes one pool goes through: see GrowSizes
    apool,      \* apool[h] = pool_ of the pool-backed heap h
    aroot,      \* aroot[h] = root_ of the pool-backed heap h
    asz,        \* asz[h] = sz_ of the pool-backed heap h
    amem,       \* the Node objects built in pool slots: key, left, right by address
    ares,       \* how the last call on a pool-backed heap ended, and what it returned
    amerges,    \* history: merges made of one pool-backed heap into another
    dsu,        \* a DSU: its array p
    dcall,      \* history: the last DSU call: name, arguments, value returned
    rdsu,       \* a RollbackDSU: its array p and its stack stk
    snaps,      \* history: the snapshots taken and not rolled back past: token, p then
    rcall,      \* history: the last RollbackDSU call
    guards,     \* guards[g]: the ScopeGuard in storage g: alive, active_, fn_
    ran,        \* history: ran[f] = the number of times cleanup function f ran
    made,       \* history: the number of scope_exit calls made
    dismissedF, \* history: dismissedF[f]: the caller dismissed the guard that held f
    gcall,      \* history: the last ScopeGuard call
    sync,       \* "mutex": the two threads lock a mutex around each call; "none"
    lock,       \* the thread that holds the mutex, 0 if none does
    th,         \* th[t]: thread t's place in its call and the locals of the call
    held,       \* history: held[t] = the slots create() has returned to thread t
    nops        \* history: the calls the threads have begun

heapVars == <<cmpKind, alive, root, sz, key, left, right, allocd, contents, op>>
countVars == <<kpush, jpop>>
poolVars == <<pool, heapTop, handles, ncreate, mdestroy, pcall>>
arenaVars == <<apool, aroot, asz, amem, ares, amerges>>
dsuVars == <<dsu, dcall>>
rdsuVars == <<rdsu, snaps, rcall>>
guardVars == <<guards, ran, made, dismissedF, gcall>>
threadVars == <<sync, lock, th, held, nops>>
utilVars == <<dsuVars, rdsuVars, guardVars, threadVars>>
restVars == <<build, sizes, arenaVars, utilVars>>
vars == <<cmpKind, alive, root, sz, key, left, right, allocd, contents, op,
          kpush, jpop, pool, heapTop, handles, ncreate, mdestroy, pcall,
          build, sizes, apool, aroot, asz, amem, ares, amerges,
          dsu, dcall, rdsu, snaps, rcall, guards, ran, made, dismissedF, gcall,
          sync, lock, th, held, nops>>

\* ------------------------------------------------------------- comparator
\* Comp: std::less<T> (the default) or std::greater<T>.
Cmp(x, y) == IF cmpKind = "less" THEN x < y ELSE x > y

\* --------------------------------------------------------- node store
\* The node store as one value, so that the helpers below are functions of it.
Mem == [key |-> key, left |-> left, right |-> right, alloc |-> allocd]

MinOf(S) == CHOOSE x \in S : \A y \in S : x <= y

\* The element of a one-element set; {e(x) : x \in {v}} computes v once.
Only(S) == CHOOSE x \in S : TRUE

\* new Node(v): a fresh address (the lowest free one stands for "any"),
\* key = v, left = right = nullptr.
make_node(v, m) ==
    LET n == MinOf(Node \ m.alloc)
    IN  [node |-> n,
         mem  |-> [m EXCEPT !.key[n] = v, !.left[n] = NULL, !.right[n] = NULL,
                            !.alloc = @ \cup {n}]]

\* delete n: the address is free again; the dead fields are blanked.
delete_node(n, m) ==
    [m EXCEPT !.key[n] = 0, !.left[n] = NULL, !.right[n] = NULL,
              !.alloc = @ \ {n}]

\* merge_nodes with a fault seeded, three ways.
\* (1) no comparison of the roots: a always stays on top.
RECURSIVE merge_nodes_nocmp(_, _, _)
merge_nodes_nocmp(a, b, m) ==
    IF a = NULL THEN [root |-> b, mem |-> m]
    ELSE IF b = NULL THEN [root |-> a, mem |-> m]
    ELSE Only({ LET m1 == [r.mem EXCEPT !.right[a] = r.root]
                IN  [root |-> a,
                     mem  |-> [m1 EXCEPT !.left[a] = m1.right[a],
                                         !.right[a] = m1.left[a]]] :
                r \in {merge_nodes_nocmp(m.right[a], b, m)} })

\* (2) the comparison taken the wrong way round: cmp(a->key, b->key).
RECURSIVE merge_nodes_revcmp(_, _, _)
merge_nodes_revcmp(a, b, m) ==
    IF a = NULL THEN [root |-> b, mem |-> m]
    ELSE IF b = NULL THEN [root |-> a, mem |-> m]
    ELSE LET sw == Cmp(m.key[a], m.key[b])
             a1 == IF sw THEN b ELSE a
             b1 == IF sw THEN a ELSE b
         IN  Only({ LET m1 == [r.mem EXCEPT !.right[a1] = r.root]
                    IN  [root |-> a1,
                         mem  |-> [m1 EXCEPT !.left[a1] = m1.right[a1],
                                             !.right[a1] = m1.left[a1]]] :
                    r \in {merge_nodes_revcmp(m.right[a1], b1, m)} })

\* (3) a->right = b in place of a->right = merge_nodes(a->right, b, cmp).
merge_nodes_overwrite(a, b, m) ==
    IF a = NULL THEN [root |-> b, mem |-> m]
    ELSE IF b = NULL THEN [root |-> a, mem |-> m]
    ELSE LET sw == Cmp(m.key[b], m.key[a])
             a1 == IF sw THEN b ELSE a
             b1 == IF sw THEN a ELSE b
             m1 == [m EXCEPT !.right[a1] = b1]
             m2 == [m1 EXCEPT !.left[a1] = m1.right[a1],
                              !.right[a1] = m1.left[a1]]
         IN  [root |-> a1, mem |-> m2]

\* (4) the skew step std::swap(a->left, a->right) is missing.
RECURSIVE merge_nodes_no_skew(_, _, _)
merge_nodes_no_skew(a, b, m) ==
    IF a = NULL THEN [root |-> b, mem |-> m]
    ELSE IF b = NULL THEN [root |-> a, mem |-> m]
    ELSE LET sw == Cmp(m.key[b], m.key[a])
             a1 == IF sw THEN b ELSE a
             b1 == IF sw THEN a ELSE b
         IN  Only({ [root |-> a1, mem |-> [r.mem EXCEPT !.right[a1] = r.root]] :
                    r \in {merge_nodes_no_skew(m.right[a1], b1, m)} })

\* merge_nodes(a, b, cmp): the result root and the store after the relinking.
RECURSIVE merge_nodes(_, _, _)
merge_nodes(a, b, m) ==
    IF a = NULL THEN [root |-> b, mem |-> m]
    ELSE IF b = NULL THEN [root |-> a, mem |-> m]
    ELSE LET sw == Cmp(m.key[b], m.key[a])
             a1 == IF sw THEN b ELSE a
             b1 == IF sw THEN a ELSE b
         IN  Only({ LET m1 == [r.mem EXCEPT !.right[a1] = r.root]
                    IN  [root |-> a1,
                         mem  |-> [m1 EXCEPT !.left[a1] = m1.right[a1],
                                             !.right[a1] = m1.left[a1]]] :
                    r \in {merge_nodes(m.right[a1], b1, m)} })

\* The calls of merge_nodes nested inside one another when it is given a and
\* b in store m: this call is number d, and the value is the number of the
\* innermost one.  The links read on the way down are those of m, since a
\* call writes a->right only after its inner call has returned.  A chain of
\* more calls than there are nodes (and one) never ends: the value is 0.
\* With a fault seeded: the inner call is given a->left.
RECURSIVE merge_calls_left(_, _, _, _)
merge_calls_left(a, b, m, d) ==
    IF d > Cardinality(m.alloc) + 1 THEN 0
    ELSE IF a = NULL \/ b = NULL THEN d
    ELSE LET sw == Cmp(m.key[b], m.key[a])
             a1 == IF sw THEN b ELSE a
             b1 == IF sw THEN a ELSE b
         IN  merge_calls_left(m.left[a1], b1, m, d + 1)

RECURSIVE merge_calls(_, _, _, _)
merge_calls(a, b, m, d) ==
    IF d > Cardinality(m.alloc) + 1 THEN 0
    ELSE IF a = NULL \/ b = NULL THEN d
    ELSE LET sw == Cmp(m.key[b], m.key[a])
             a1 == IF sw THEN b ELSE a
             b1 == IF sw THEN a ELSE b
         IN  merge_calls(m.right[a1], b1, m, d + 1)

\* destroy_subtree(n): post-order delete of the whole subtree.
RECURSIVE destroy_subtree(_, _)
destroy_subtree(n, m) ==
    IF n = NULL THEN m
    ELSE Only({ delete_node(n, m2) :
                m2 \in { destroy_subtree(m1.right[n], m1) :
                         m1 \in {destroy_subtree(m.left[n], m)} } })

\* The body of pop() on the tree: detach the children, delete the root,
\* merge the children.
pop_nodes(r, m) ==
    LET l  == m.left[r]
        rr == m.right[r]
    IN  Only({ merge_nodes(l, rr, m1) : m1 \in {delete_node(r, m)} })

\* The body of push()/emplace() on the tree.
push_nodes(r, v, m) ==
    Only({ merge_nodes(r, mk.node, mk.mem) : mk \in {make_node(v, m)} })

\* ------------------------------------------------------------- observers
\* top with a fault seeded: it reads the left child's key when there is one.
top_left(h) ==
    IF left[root[h]] # NULL THEN key[left[root[h]]] ELSE key[root[h]]

empty(h) == root[h] = NULL
size(h) == sz[h]
top(h) == key[root[h]]

\* The sequence read by `while (!h.empty()) { got.push_back(h.top()); h.pop(); }`
\* started on root r of store m.
RECURSIVE DrainFrom(_, _)
DrainFrom(r, m) ==
    IF r = NULL THEN <<>>
    ELSE Only({ <<m.key[r]>> \o DrainFrom(p.root, p.mem) :
                p \in {pop_nodes(r, m)} })

Drain(h) == Only({ DrainFrom(root[h], m) : m \in {Mem} })

\* The nodes reachable from r through left/right.
RECURSIVE TreeNodes(_)
TreeNodes(n) ==
    IF n = NULL THEN {} ELSE {n} \cup TreeNodes(left[n]) \cup TreeNodes(right[n])

\* --------------------------------------------------------------- history
EmptyBag == [k \in Keys |-> 0]
BagAdd(b, k) == [b EXCEPT ![k] = @ + 1]
BagDel(b, k) == [b EXCEPT ![k] = @ - 1]
BagSum(b1, b2) == [k \in Keys |-> b1[k] + b2[k]]
RECURSIVE SeqCount(_, _)
SeqCount(s, k) ==
    IF s = <<>> THEN 0
    ELSE (IF Head(s) = k THEN 1 ELSE 0) + SeqCount(Tail(s), k)

Call(name, h, arg, preo) ==
    [name |-> name, h |-> h, arg |-> arg, preo |-> preo]

\* ------------------------------------------------- address renaming
\* The program never compares, orders or hashes node addresses, so a state is
\* kept up to a renaming of them: after each call the nodes are renumbered in
\* preorder from root[1], then root[2], then any node no heap reaches.
RECURSIVE Preorder(_, _)
Preorder(n, m) ==
    IF n = NULL THEN <<>>
    ELSE <<n>> \o Preorder(m.left[n], m) \o Preorder(m.right[n], m)

RECURSIVE SetToSeq(_)
SetToSeq(S) == IF S = {} THEN <<>> ELSE <<MinOf(S)>> \o SetToSeq(S \ {MinOf(S)})

RECURSIVE Distinct(_, _)
Distinct(s, seen) ==
    IF s = <<>> THEN <<>>
    ELSE IF Head(s) \in seen THEN Distinct(Tail(s), seen)
    ELSE <<Head(s)>> \o Distinct(Tail(s), seen \cup {Head(s)})

RECURSIVE RootsPreorder(_, _, _)
RootsPreorder(hs, rt, m) ==
    IF hs = {} THEN <<>>
    ELSE Preorder(rt[MinOf(hs)], m) \o RootsPreorder(hs \ {MinOf(hs)}, rt, m)

\* new[n]: the address node n is renamed to; old[i]: the node renamed to i.
Renaming(rt, m) ==
    LET ord == Distinct(RootsPreorder(Heaps, rt, m) \o SetToSeq(m.alloc)
                        \o SetToSeq(Node), {})
    IN  [old |-> ord,
         new |-> [n \in Node \cup {NULL} |->
                     IF n = NULL THEN NULL ELSE CHOOSE i \in Node : ord[i] = n]]

\* The heap roots rt and the node store m become the next state.
Store(rt, m) ==
    \E p \in {Renaming(rt, m)} :
        /\ root' = [h \in Heaps |-> p.new[rt[h]]]
        /\ key' = [i \in Node |-> m.key[p.old[i]]]
        /\ left' = [i \in Node |-> p.new[m.left[p.old[i]]]]
        /\ right' = [i \in Node |-> p.new[m.right[p.old[i]]]]
        /\ allocd' = {p.new[n] : n \in m.alloc}

\* ------------------------------------------------------------ heap calls
\* void push(const T& v) / push(T&& v)
push(h, v) ==
    /\ alive[h]
    /\ Node \ allocd # {}
    /\ \E r \in {push_nodes(root[h], v, Mem)} :
           Store([root EXCEPT ![h] = r.root], r.mem)
    /\ sz' = [sz EXCEPT ![h] = @ + 1]
    /\ contents' = [contents EXCEPT ![h] = BagAdd(@, v)]
    /\ op' = Call("push", h, v, 0)
    /\ UNCHANGED <<cmpKind, alive>>

\* emplace with a fault seeded: ++sz_ is missing.
emplace_no_inc(h, v) ==
    /\ alive[h]
    /\ Node \ allocd # {}
    /\ \E r \in {push_nodes(root[h], v, Mem)} :
           Store([root EXCEPT ![h] = r.root], r.mem)
    /\ contents' = [contents EXCEPT ![h] = BagAdd(@, v)]
    /\ op' = Call("emplace", h, v, 0)
    /\ UNCHANGED <<cmpKind, alive, sz>>

\* template<class... Args> void emplace(Args&&... args)
emplace(h, v) ==
    /\ alive[h]
    /\ Node \ allocd # {}
    /\ \E r \in {push_nodes(root[h], v, Mem)} :
           Store([root EXCEPT ![h] = r.root], r.mem)
    /\ sz' = [sz EXCEPT ![h] = @ + 1]
    /\ contents' = [contents EXCEPT ![h] = BagAdd(@, v)]
    /\ op' = Call("emplace", h, v, 0)
    /\ UNCHANGED <<cmpKind, alive>>

\* push_bad_alloc with a fault seeded: ++sz_ comes before make_node(v).
push_bad_alloc_counted(h, v) ==
    /\ alive[h]
    /\ sz' = [sz EXCEPT ![h] = @ + 1]
    /\ op' = Call("push_bad_alloc", h, v, 0)
    /\ UNCHANGED <<cmpKind, alive, root, key, left, right, allocd, contents>>

\* push(v) when new Node(v) throws std::bad_alloc: make_node(v) is an argument
\* of merge_nodes, so the exception leaves push before merge_nodes is entered
\* and before root_ is assigned or sz_ incremented.
push_bad_alloc(h, v) ==
    /\ alive[h]
    /\ op' = Call("push_bad_alloc", h, v, 0)
    /\ UNCHANGED <<cmpKind, alive, root, sz, key, left, right, allocd, contents>>

\* emplace(args...) when new Node(T(args...)) throws std::bad_alloc.
emplace_bad_alloc(h, v) ==
    /\ alive[h]
    /\ op' = Call("emplace_bad_alloc", h, v, 0)
    /\ UNCHANGED <<cmpKind, alive, root, sz, key, left, right, allocd, contents>>

\* pop with a fault seeded: --sz_ is missing.
pop_no_dec(h) ==
    /\ alive[h]
    /\ ~empty(h)
    /\ \E r \in {pop_nodes(root[h], Mem)} :
           Store([root EXCEPT ![h] = r.root], r.mem)
    /\ contents' = [contents EXCEPT ![h] = BagDel(@, key[root[h]])]
    /\ op' = Call("pop", h, key[root[h]], 0)
    /\ UNCHANGED <<cmpKind, alive, sz>>

\* void pop(), called as its precondition allows: on a non-empty heap.
pop(h) ==
    /\ alive[h]
    /\ ~empty(h)
    /\ \E r \in {pop_nodes(root[h], Mem)} :
           Store([root EXCEPT ![h] = r.root], r.mem)
    /\ sz' = [sz EXCEPT ![h] = @ - 1]
    /\ contents' = [contents EXCEPT ![h] = BagDel(@, key[root[h]])]
    /\ op' = Call("pop", h, key[root[h]], 0)
    /\ UNCHANGED <<cmpKind, alive>>

\* const T& top() const, on a non-empty heap; the value read is op.arg.
topCall(h) ==
    /\ alive[h]
    /\ ~empty(h)
    /\ op' = Call("top", h, top(h), 0)
    /\ UNCHANGED <<cmpKind, alive, root, sz, key, left, right, allocd, contents>>

\* pop() on an empty heap.  Nothing in pop() tests root_: root_->left reads
\* through a null pointer, which is undefined in either build.  The read
\* faults; or it yields null links, and then delete root_ deletes nothing,
\* root_ = merge_nodes(nullptr, nullptr) stays null and --sz_ wraps.  The
\* wrap is followed while the sizes are less than MaxUnderflow short of the
\* number of nodes.
pop_empty(h) ==
    /\ alive[h]
    /\ empty(h)
    /\ \/ /\ op' = Call("pop_fault", h, 0, 0)
          /\ UNCHANGED sz
       \/ /\ sz[1] + sz[2] - Cardinality(allocd) > -MaxUnderflow
          /\ sz' = [sz EXCEPT ![h] = @ - 1]
          /\ op' = Call("pop", h, 0, 0)
    /\ UNCHANGED <<cmpKind, alive, root, key, left, right, allocd, contents>>

\* top() on an empty heap.  Nothing in top() tests root_: it returns
\* root_->key through a null pointer; the caller's read faults or yields any
\* value.
top_empty(h) ==
    /\ alive[h]
    /\ empty(h)
    /\ \/ op' = Call("top_fault", h, 0, 0)
       \/ \E v \in Keys : op' = Call("top", h, v, 0)
    /\ UNCHANGED <<cmpKind, alive, root, sz, key, left, right, allocd, contents>>

\* The program runs until a call faults.
HeapRunning == op.name \notin {"pop_fault", "top_fault"}

\* merge with a fault seeded, two ways.  (1) other.sz_ = 0 is missing.
merge_no_reset(h, o) ==
    /\ alive[h] /\ alive[o]
    /\ IF h = o
       THEN UNCHANGED <<root, sz, key, left, right, allocd, contents>>
       ELSE /\ \E r \in {merge_nodes(root[h], root[o], Mem)} :
                   Store([root EXCEPT ![h] = r.root, ![o] = NULL], r.mem)
            /\ sz' = [sz EXCEPT ![h] = sz[h] + sz[o]]
            /\ contents' = [contents EXCEPT ![h] = BagSum(contents[h], contents[o]),
                                            ![o] = EmptyBag]
    /\ op' = Call("merge", h, o, sz[o])
    /\ UNCHANGED <<cmpKind, alive>>

\* (2) the identity test `if (this == &other) return;` is missing.
merge_no_self_check(h, o) ==
    /\ alive[h] /\ alive[o]
    /\ \E r \in {merge_nodes(root[h], root[o], Mem)} :
           Store([[root EXCEPT ![h] = r.root] EXCEPT ![o] = NULL], r.mem)
    /\ sz' = [[sz EXCEPT ![h] = sz[h] + sz[o]] EXCEPT ![o] = 0]
    /\ contents' = [[contents EXCEPT ![h] = BagSum(contents[h], contents[o])]
                        EXCEPT ![o] = EmptyBag]
    /\ op' = Call("merge", h, o, sz[o])
    /\ UNCHANGED <<cmpKind, alive>>

\* void merge(SkewHeap& other)
merge(h, o) ==
    /\ alive[h] /\ alive[o]
    /\ IF h = o
       THEN UNCHANGED <<root, sz, key, left, right, allocd, contents>>
       ELSE /\ \E r \in {merge_nodes(root[h], root[o], Mem)} :
                   Store([root EXCEPT ![h] = r.root, ![o] = NULL], r.mem)
            /\ sz' = [sz EXCEPT ![h] = sz[h] + sz[o], ![o] = 0]
            /\ contents' = [contents EXCEPT ![h] = BagSum(contents[h], contents[o]),
                                            ![o] = EmptyBag]
    /\ op' = Call("merge", h, o, sz[o])
    /\ UNCHANGED <<cmpKind, alive>>

\* void clear() noexcept  (UsePool == false)
clear_heap(h) ==
    /\ \E m \in {destroy_subtree(root[h], Mem)} :
           Store([root EXCEPT ![h] = NULL], m)
    /\ sz' = [sz EXCEPT ![h] = 0]
    /\ contents' = [contents EXCEPT ![h] = EmptyBag]

clear(h) ==
    /\ alive[h]
    /\ clear_heap(h)
    /\ op' = Call("clear", h, 0, 0)
    /\ UNCHANGED <<cmpKind, alive>>

\* SkewHeap() = default, on storage that holds no heap.
construct(h) ==
    /\ ~alive[h]
    /\ alive' = [alive EXCEPT ![h] = TRUE]
    /\ root' = [root EXCEPT ![h] = NULL]
    /\ sz' = [sz EXCEPT ![h] = 0]
    /\ op' = Call("construct", h, 0, 0)
    /\ UNCHANGED <<cmpKind, key, left, right, allocd, contents>>

\* ~SkewHeap() { clear(); }
destruct(h) ==
    /\ alive[h]
    /\ clear_heap(h)
    /\ alive' = [alive EXCEPT ![h] = FALSE]
    /\ op' = Call("destruct", h, 0, 0)
    /\ UNCHANGED cmpKind

\* move_construct with a fault seeded: other.root_ = nullptr; other.sz_ = 0
\* is missing.
move_construct_no_reset(h, o) ==
    /\ ~alive[h] /\ alive[o]
    /\ alive' = [alive EXCEPT ![h] = TRUE]
    /\ Store([root EXCEPT ![h] = root[o]], Mem)
    /\ sz' = [sz EXCEPT ![h] = sz[o]]
    /\ contents' = [contents EXCEPT ![h] = contents[o], ![o] = EmptyBag]
    /\ op' = Call("move_construct", h, o, sz[o])
    /\ UNCHANGED cmpKind

\* SkewHeap(SkewHeap&& other) noexcept, constructing h from o.
move_construct(h, o) ==
    /\ ~alive[h] /\ alive[o]
    /\ alive' = [alive EXCEPT ![h] = TRUE]
    /\ Store([root EXCEPT ![h] = root[o], ![o] = NULL], Mem)
    /\ sz' = [sz EXCEPT ![h] = sz[o], ![o] = 0]
    /\ contents' = [contents EXCEPT ![h] = contents[o], ![o] = EmptyBag]
    /\ op' = Call("move_construct", h, o, sz[o])
    /\ UNCHANGED cmpKind

\* move assignment with a fault seeded: clear() is missing.
move_assign_no_clear(h, o) ==
    /\ alive[h] /\ alive[o]
    /\ IF h = o
       THEN UNCHANGED <<root, sz, key, left, right, allocd, contents>>
       ELSE /\ Store([root EXCEPT ![h] = root[o], ![o] = NULL], Mem)
            /\ sz' = [sz EXCEPT ![h] = sz[o], ![o] = 0]
            /\ contents' = [contents EXCEPT ![h] = contents[o], ![o] = EmptyBag]
    /\ op' = Call("move_assign", h, o, sz[o])
    /\ UNCHANGED <<cmpKind, alive>>

\* SkewHeap& operator=(SkewHeap&& other) noexcept
move_assign(h, o) ==
    /\ alive[h] /\ alive[o]
    /\ IF h = o
       THEN UNCHANGED <<root, sz, key, left, right, allocd, contents>>
       ELSE /\ \E m \in {destroy_subtree(root[h], Mem)} :
                   Store([root EXCEPT ![h] = root[o], ![o] = NULL], m)
            /\ sz' = [sz EXCEPT ![h] = sz[o], ![o] = 0]
            /\ contents' = [contents EXCEPT ![h] = contents[o], ![o] = EmptyBag]
    /\ op' = Call("move_assign", h, o, sz[o])
    /\ UNCHANGED <<cmpKind, alive>>

\* ------------------------------------------------------------ ObjectPool
\* A pool is the record of its members.  A slot is the address mem + i of a
\* block [ptr |-> mem, count |-> n]; ::operator new[] hands out the addresses
\* t + 1 .. t + n above the highest address t it has handed out before.
\* std::size_t values are kept modulo 2^64, -k standing for 2^64 - k.
Max(x, y) == IF x >= y THEN x ELSE y
Min(x, y) == IF x <= y THEN x ELSE y

\* explicit ObjectPool(std::size_t initial_block_capacity = 4096)
ObjectPool(initial_block_capacity) ==
    [blocks |-> <<>>, free |-> <<>>, next_block_cap |-> initial_block_capacity,
     total_slots |-> 0, live |-> 0]

\* grow_: const std::size_t count = std::max(next_block_cap_, min_new_slots);
block_count(cap, min_new_slots) == Max(cap, min_new_slots)

\* next_cap with a fault seeded: the test against 1 << 28 is missing.
next_cap_uncapped(cap) == cap * 2

\* grow_: if (next_block_cap_ < (1 << 28)) next_block_cap_ *= 2;
next_cap(cap) == IF cap < 2^BlockCapShift THEN cap * 2 ELSE cap

\* grow_ with a fault seeded: total_slots_ += count is missing.
RECURSIVE grow_no_total(_, _, _)
grow_no_total(p, min_new_slots, t) ==
    IF ~(min_new_slots > 0) THEN [pool |-> p, top |-> t]
    ELSE LET count == block_count(p.next_block_cap, min_new_slots)
             mem   == t + 1
         IN  grow_no_total(
                 [p EXCEPT !.blocks = Append(@, [ptr |-> mem, count |-> count]),
                           !.free = @ \o [i \in 1..count |-> mem + (i - 1)],
                           !.next_block_cap = next_cap(@)],
                 IF min_new_slots > count THEN min_new_slots - count ELSE 0,
                 t + count)

\* grow_ with a fault seeded: a block has next_block_cap_ slots whatever the
\* request (the request itself when the capacity is 0).
RECURSIVE grow_by_cap(_, _, _)
grow_by_cap(p, min_new_slots, t) ==
    IF ~(min_new_slots > 0) THEN [pool |-> p, top |-> t]
    ELSE LET count == IF p.next_block_cap > 0 THEN p.next_block_cap
                      ELSE min_new_slots
             mem   == t + 1
         IN  grow_by_cap(
                 [p EXCEPT !.blocks = Append(@, [ptr |-> mem, count |-> count]),
                           !.free = @ \o [i \in 1..count |-> mem + (i - 1)],
                           !.total_slots = @ + count,
                           !.next_block_cap = next_cap(@)],
                 IF min_new_slots > count THEN min_new_slots - count ELSE 0,
                 t + count)

\* void grow_(std::size_t min_new_slots): one turn of the while loop per call.
RECURSIVE grow_(_, _, _)
grow_(p, min_new_slots, t) ==
    IF ~(min_new_slots > 0) THEN [pool |-> p, top |-> t]
    ELSE LET count == block_count(p.next_block_cap, min_new_slots)
             mem   == t + 1
         IN  grow_(
                 [p EXCEPT !.blocks = Append(@, [ptr |-> mem, count |-> count]),
                           !.free = @ \o [i \in 1..count |-> mem + (i - 1)],
                           !.total_slots = @ + count,
                           !.next_block_cap = next_cap(@)],
                 IF min_new_slots > count THEN min_new_slots - count ELSE 0,
                 t + count)

\* The number of free_.push_back calls of one block that return before one
\* throws: none or one.
FailPoints(count) == {i \in {0, 1} : i < count}

\* grow_(min_new_slots) left by std::bad_alloc in its first turn, the pools it
\* can leave: ::operator new[] throws and the pool is as before (as it is
\* when blocks_.push_back throws, the new storage lost); or a free_.push_back
\* throws, the block in blocks_ and i of its slots in free_, total_slots_
\* and next_block_cap_ not yet updated.
grow_bad_alloc(p, min_new_slots, t) ==
    LET count == block_count(p.next_block_cap, min_new_slots)
        mem   == t + 1
    IN  {[pool |-> p, top |-> t]}
            \cup {[pool |-> [p EXCEPT !.blocks = Append(@, [ptr |-> mem, count |-> count]),
                                      !.free = @ \o [j \in 1..i |-> mem + (j - 1)]],
                    top  |-> t + count] : i \in FailPoints(count)}

\* reserve with a fault seeded: the test free_.size() >= n is missing and the
\* call grows by n whatever the free list holds.
pool_reserve_additive(p, n, t) == grow_(p, n, t)

\* void reserve(std::size_t n)
pool_reserve(p, n, t) ==
    IF Len(p.free) >= n THEN [pool |-> p, top |-> t]
    ELSE grow_(p, n - Len(p.free), t)

\* create with a fault seeded: free_.pop_back() is missing.
pool_create_no_pop(p, t) ==
    Only({ [pool |-> [g.pool EXCEPT !.live = @ + 1],
            top  |-> g.top,
            ptr  |-> g.pool.free[Len(g.pool.free)]] :
           g \in {IF p.free = <<>> THEN grow_(p, 1, t) ELSE [pool |-> p, top |-> t]} })

\* create with a fault seeded: the object is built in free_.front() while
\* free_.back() is the slot popped.
pool_create_front(p, t) ==
    Only({ [pool |-> [g.pool EXCEPT !.free = SubSeq(@, 1, Len(@) - 1),
                                    !.live = @ + 1],
            top  |-> g.top,
            ptr  |-> g.pool.free[1]] :
           g \in {IF p.free = <<>> THEN grow_(p, 1, t) ELSE [pool |-> p, top |-> t]} })

\* T* create(Args&&... args): the pool after the call, and the pointer returned.
pool_create(p, t) ==
    Only({ [pool |-> [g.pool EXCEPT !.free = SubSeq(@, 1, Len(@) - 1),
                                    !.live = @ + 1],
            top  |-> g.top,
            ptr  |-> g.pool.free[Len(g.pool.free)]] :
           g \in {IF p.free = <<>> THEN grow_(p, 1, t) ELSE [pool |-> p, top |-> t]} })

\* create left by an exception of T's constructor: the slot was taken off
\* the free list (the pool grown first if the list was empty) and
\* ++live_ not reached.
pool_create_throw(p, t) ==
    Only({ [pool |-> [g.pool EXCEPT !.free = SubSeq(@, 1, Len(@) - 1)],
            top  |-> g.top] :
           g \in {IF p.free = <<>> THEN grow_(p, 1, t) ELSE [pool |-> p, top |-> t]} })

\* create and reserve left by std::bad_alloc inside grow_: the pools the call
\* can leave.
pool_create_bad_alloc(p, t) == grow_bad_alloc(p, 1, t)
pool_reserve_bad_alloc(p, n, t) == grow_bad_alloc(p, n - Len(p.free), t)

\* destroy with a fault seeded: --live_ is missing.
pool_destroy_no_dec(p, ptr) ==
    IF ptr = NULL THEN p
    ELSE [p EXCEPT !.free = Append(@, ptr)]

\* destroy with a fault seeded: the test if (!p) return is missing.
pool_destroy_no_null_check(p, ptr) ==
    [p EXCEPT !.free = Append(@, ptr), !.live = @ - 1]

\* void destroy(T* p) noexcept
pool_destroy(p, ptr) ==
    IF ptr = NULL THEN p
    ELSE [p EXCEPT !.free = Append(@, ptr), !.live = @ - 1]

\* release_all with a fault seeded: total_slots_ is reset with the blocks.
pool_release_all_reset(p) ==
    [p EXCEPT !.blocks = <<>>, !.free = <<>>, !.total_slots = 0]

\* release_all with a fault seeded: free_.clear() is missing.
pool_release_all_keep_free(p) == [p EXCEPT !.blocks = <<>>]

\* void release_all() noexcept
pool_release_all(p) == [p EXCEPT !.blocks = <<>>, !.free = <<>>]

\* Observers.
live(p) == p.live
capacity_slots(p) == p.total_slots

\* The last pool call: its name and its argument (for create, the pointer
\* it returned).
PoolCall(name, arg) == [name |-> name, arg |-> arg]

\* The slots of a block, the slots of the blocks a pool owns, the slots in
\* its free list.
BlockSlots(b) == b.ptr .. (b.ptr + b.count - 1)
OwnedSlots(p) == UNION { BlockSlots(p.blocks[i]) : i \in 1..Len(p.blocks) }
FreeSlots(p) == { p.free[i] : i \in 1..Len(p.free) }
RECURSIVE SumCounts(_)
SumCounts(bs) == IF bs = <<>> THEN 0 ELSE Head(bs).count + SumCounts(Tail(bs))
OwnedCount(p) == SumCounts(p.blocks)

\* The slots a call would add: growth is followed while the total stays
\* within MaxSlots.
WithinSlots(g) == g.pool.total_slots <= MaxSlots

\* pool.create(...)
create ==
    /\ ncreate < MaxCreates
    /\ \E r \in {pool_create(pool, heapTop)} :
           /\ WithinSlots(r)
           /\ pool' = r.pool
           /\ heapTop' = r.top
           /\ handles' = handles \cup {r.ptr}
           /\ pcall' = PoolCall("create", r.ptr)
    /\ ncreate' = ncreate + 1
    /\ UNCHANGED mdestroy

\* pool.destroy(p) on a handle that is live at the call.
destroy(ptr) ==
    /\ ptr \in handles
    /\ pool' = pool_destroy(pool, ptr)
    /\ handles' = handles \ {ptr}
    /\ mdestroy' = mdestroy + 1
    /\ pcall' = PoolCall("destroy", ptr)
    /\ UNCHANGED <<heapTop, ncreate>>

\* pool.destroy(nullptr)
destroy_null ==
    /\ pool' = pool_destroy(pool, NULL)
    /\ pcall' = PoolCall("destroy", NULL)
    /\ UNCHANGED <<heapTop, handles, ncreate, mdestroy>>

\* pool.reserve(n)
reserve(n) ==
    /\ \E r \in {pool_reserve(pool, n, heapTop)} :
           /\ WithinSlots(r)
           /\ pool' = r.pool
           /\ heapTop' = r.top
    /\ pcall' = PoolCall("reserve", n)
    /\ UNCHANGED <<handles, ncreate, mdestroy>>

\* pool.release_all(), called as its precondition allows: with no live object.
release_all ==
    /\ live(pool) = 0
    /\ pool' = pool_release_all(pool)
    /\ pcall' = PoolCall("release_all", 0)
    /\ UNCHANGED <<heapTop, handles, ncreate, mdestroy>>

\* pool.create(...) whose T(args...) throws.
create_throw ==
    /\ \E r \in {pool_create_throw(pool, heapTop)} :
           /\ WithinSlots(r)
           /\ pool' = r.pool
           /\ heapTop' = r.top
    /\ pcall' = PoolCall("create_throw", 0)
    /\ UNCHANGED <<handles, ncreate, mdestroy>>

\* pool.create(...) on an empty free list, grow_ left by std::bad_alloc.
create_bad_alloc ==
    /\ pool.free = <<>>
    /\ \E r \in pool_create_bad_alloc(pool, heapTop) :
           /\ r.top <= MaxSlots /\ Len(r.pool.blocks) <= MaxFailBlocks
           /\ pool' = r.pool
           /\ heapTop' = r.top
    /\ pcall' = PoolCall("create_bad_alloc", 0)
    /\ UNCHANGED <<handles, ncreate, mdestroy>>

\* pool.reserve(n) with fewer than n free slots, grow_ left by std::bad_alloc.
reserve_bad_alloc(n) ==
    /\ Len(pool.free) < n
    /\ \E r \in pool_reserve_bad_alloc(pool, n, heapTop) :
           /\ r.top <= MaxSlots /\ Len(r.pool.blocks) <= MaxFailBlocks
           /\ pool' = r.pool
           /\ heapTop' = r.top
    /\ pcall' = PoolCall("reserve_bad_alloc", n)
    /\ UNCHANGED <<handles, ncreate, mdestroy>>

\* ------------------------------------------- the pool-backed heap (UsePool)
\* SkewHeapArena<T, Comp> = detail::SkewHeap<T, Comp, true>: heap h has its own
\* pool_ = apool[h], default-constructed, and its nodes are built in pool
\* slots.  amem holds key, left and right of every slot that holds a Node;
\* a Node in released storage keeps its last contents there, and the contents
\* of a slot whose Node was destroyed are dropped (no heap refers to it).
Put(f, a, v) == [x \in DOMAIN f \cup {a} |-> IF x = a THEN v ELSE f[x]]
Drop(m, S) ==
    [key   |-> [x \in DOMAIN m.key \ S |-> m.key[x]],
     left  |-> [x \in DOMAIN m.left \ S |-> m.left[x]],
     right |-> [x \in DOMAIN m.right \ S |-> m.right[x]]]

RECURSIVE ArenaTreeNodes(_, _)
ArenaTreeNodes(n, m) ==
    IF n = NULL THEN {}
    ELSE {n} \cup ArenaTreeNodes(m.left[n], m) \cup ArenaTreeNodes(m.right[n], m)

\* The pool whose blocks hold slot a, if any; a slot in no block of any pool
\* is storage that was released.
InPool(a, p) ==
    \E i \in 1..Len(p.blocks) :
        a >= p.blocks[i].ptr /\ a < p.blocks[i].ptr + p.blocks[i].count
Valid(a) == \E h \in Heaps : InPool(a, apool[h])

ArenaResult(status, ret) == [status |-> status, ret |-> ret]
ArenaRunning == ares.status \in {"ok", "bad_alloc"}

\* A pool allocates while its slots stay within MaxArenaBlocks blocks of the
\* default capacity.  ::operator new[] gives the blocks of pool_ of heap h
\* addresses above ArenaTop(h): no two blocks ever overlap.
ArenaSlots == MaxArenaBlocks * DefaultBlockCapacity
WithinArena(p) == p.total_slots <= ArenaSlots
RECURSIVE BlocksEnd(_, _)
BlocksEnd(p, i) ==
    IF i = 0 THEN 0 ELSE Max(p.blocks[i].ptr + p.blocks[i].count - 1, BlocksEnd(p, i - 1))
ArenaTop(h) ==
    Max((h - 1) * ArenaSlots + apool[h].total_slots,
        BlocksEnd(apool[h], Len(apool[h].blocks)))
InRegion(h, p) == BlocksEnd(p, Len(p.blocks)) <= h * ArenaSlots

\* Node* make_node(U&& v), UsePool: pool_.create(v) builds Node(v) in the slot.
arena_make_node(p, v, m, t) ==
    Only({ [node |-> c.ptr,
            pool |-> c.pool,
            mem  |-> [key   |-> Put(m.key, c.ptr, v),
                      left  |-> Put(m.left, c.ptr, NULL),
                      right |-> Put(m.right, c.ptr, NULL)]] :
           c \in {pool_create(p, t)} })

\* destroy_subtree_pool with a fault seeded: the call on n->left is missing.
RECURSIVE destroy_subtree_pool_no_left(_, _, _)
destroy_subtree_pool_no_left(p, n, m) ==
    IF n = NULL THEN p
    ELSE Only({ pool_destroy(p2, n) :
                p2 \in {destroy_subtree_pool_no_left(p, m.right[n], m)} })

\* static void destroy_subtree_pool(PoolT& pool, Node* n) noexcept
RECURSIVE destroy_subtree_pool(_, _, _)
destroy_subtree_pool(p, n, m) ==
    IF n = NULL THEN p
    ELSE Only({ pool_destroy(p2, n) :
                p2 \in { destroy_subtree_pool(p1, m.right[n], m) :
                         p1 \in {destroy_subtree_pool(p, m.left[n], m)} } })

\* A call that reads or writes a Node in released storage is undefined: it
\* can run on the stale contents as the code is written, or fault.
arena_fault(touched) ==
    /\ \E a \in touched : ~Valid(a)
    /\ ares' = ArenaResult("fault", 0)
    /\ UNCHANGED <<apool, aroot, asz, amem>>

\* The slot the next create() of pool p builds in, when it does not grow.
NextSlot(p) == IF p.free = <<>> THEN {} ELSE {p.free[Len(p.free)]}

\* void push(const T& v) / emplace(Args&&...), UsePool; followed while the
\* heaps hold fewer than MaxArenaNodes nodes and the pool counts fewer live.
arena_push(h, v) ==
    \/ /\ asz[1] + asz[2] < MaxArenaNodes
       /\ live(apool[h]) < MaxArenaNodes
       /\ \E mk \in {arena_make_node(apool[h], v, amem, ArenaTop(h))} :
              /\ WithinArena(mk.pool) /\ InRegion(h, mk.pool)
              /\ \E r \in {merge_nodes(aroot[h], mk.node, mk.mem)} :
                     /\ aroot' = [aroot EXCEPT ![h] = r.root]
                     /\ amem' = r.mem
              /\ apool' = [apool EXCEPT ![h] = mk.pool]
       /\ asz' = [asz EXCEPT ![h] = @ + 1]
       /\ ares' = ArenaResult("ok", 0)
    \/ arena_fault(ArenaTreeNodes(aroot[h], amem) \cup NextSlot(apool[h]))

\* push(v) / emplace(args...), UsePool, when pool_.create(v) throws
\* std::bad_alloc: create allocates only in grow_(1), entered when free_ is
\* empty; the exception leaves push before merge_nodes is entered.
arena_push_bad_alloc(h, v) ==
    /\ apool[h].free = <<>>
    /\ \E g \in grow_bad_alloc(apool[h], 1, ArenaTop(h)) :
           /\ InRegion(h, g.pool)
           /\ apool' = [apool EXCEPT ![h] = g.pool]
    /\ ares' = ArenaResult("bad_alloc", 0)
    /\ UNCHANGED <<aroot, asz, amem>>

\* void pop(), UsePool: pool_.destroy(root_) is a call on the heap's own pool.
arena_pop(h) ==
    \/ /\ aroot[h] # NULL
       /\ \E r \in {merge_nodes(amem.left[aroot[h]], amem.right[aroot[h]], amem)} :
              /\ aroot' = [aroot EXCEPT ![h] = r.root]
              /\ amem' = Drop(r.mem, {aroot[h]})
       /\ apool' = [apool EXCEPT ![h] = pool_destroy(@, aroot[h])]
       /\ asz' = [asz EXCEPT ![h] = @ - 1]
       /\ ares' = ArenaResult("ok", 0)
    \/ arena_fault(ArenaTreeNodes(aroot[h], amem))

\* const T& top() const: the value read is ares.ret; from released storage it
\* is any value.
arena_top(h) ==
    \/ /\ aroot[h] # NULL
       /\ \E v \in (IF Valid(aroot[h]) THEN {amem.key[aroot[h]]} ELSE Keys) :
              ares' = ArenaResult("ok", v)
       /\ UNCHANGED <<apool, aroot, asz, amem>>
    \/ arena_fault({aroot[h]} \ {NULL})

\* void merge(SkewHeap& other), UsePool: the pools are not touched.
arena_merge(h, o) ==
    \/ /\ IF h = o
          THEN UNCHANGED <<aroot, asz, amem>>
          ELSE /\ \E r \in {merge_nodes(aroot[h], aroot[o], amem)} :
                      /\ aroot' = [aroot EXCEPT ![h] = r.root, ![o] = NULL]
                      /\ amem' = r.mem
               /\ asz' = [asz EXCEPT ![h] = asz[h] + asz[o], ![o] = 0]
       /\ ares' = ArenaResult("ok", 0)
       /\ UNCHANGED apool
    \/ /\ h # o
       /\ arena_fault(ArenaTreeNodes(aroot[h], amem) \cup ArenaTreeNodes(aroot[o], amem))

\* void clear() noexcept, UsePool: destroy_subtree_pool(pool_, root_).
arena_clear(h) ==
    \/ /\ apool' = [apool EXCEPT ![h] = destroy_subtree_pool(@, aroot[h], amem)]
       /\ aroot' = [aroot EXCEPT ![h] = NULL]
       /\ asz' = [asz EXCEPT ![h] = 0]
       /\ amem' = Drop(amem, ArenaTreeNodes(aroot[h], amem))
       /\ ares' = ArenaResult("ok", 0)
    \/ arena_fault(ArenaTreeNodes(aroot[h], amem))

\* reserve_nodes with a fault seeded: the call is a no-op with UsePool too.
arena_reserve_nodes_noop(h, n) ==
    /\ ares' = ArenaResult("ok", 0)
    /\ UNCHANGED <<apool, aroot, asz, amem>>

\* void reserve_nodes(std::size_t n), UsePool: pool_.reserve(n).
arena_reserve_nodes(h, n) ==
    /\ \E r \in {pool_reserve(apool[h], n, ArenaTop(h))} :
           /\ WithinArena(r.pool) /\ InRegion(h, r.pool)
           /\ apool' = [apool EXCEPT ![h] = r.pool]
    /\ ares' = ArenaResult("ok", 0)
    /\ UNCHANGED <<aroot, asz, amem>>

\* The member pool_ after pool_.release_all() on pool p, and how the call
\* ended: without NDEBUG, assert(live_ == 0) aborts the program.
pool_release_checked(p) ==
    IF build = "debug" /\ live(p) # 0
    THEN [pool |-> p, status |-> "abort"]
    ELSE [pool |-> pool_release_all(p), status |-> "ok"]

\* void release_all_to_pool() noexcept, UsePool, called as documented ("The
\* heap must be empty"): assert(root_ == nullptr) holds, then
\* pool_.release_all().
arena_release_all_to_pool(h) ==
    /\ aroot[h] = NULL
    /\ \E r \in {pool_release_checked(apool[h])} :
           /\ apool' = [apool EXCEPT ![h] = r.pool]
           /\ ares' = ArenaResult(r.status, 0)
    /\ UNCHANGED <<aroot, asz, amem>>

\* ~SkewHeap() { clear(); } and then the member's ~ObjectPool() { release_all(); }
arena_destruct(h) ==
    \/ /\ \E r \in {pool_release_checked(
                        destroy_subtree_pool(apool[h], aroot[h], amem))} :
              /\ apool' = [apool EXCEPT ![h] = r.pool]
              /\ ares' = ArenaResult(r.status, 0)
       /\ aroot' = [aroot EXCEPT ![h] = NULL]
       /\ asz' = [asz EXCEPT ![h] = 0]
       /\ amem' = Drop(amem, ArenaTreeNodes(aroot[h], amem))
    \/ arena_fault(ArenaTreeNodes(aroot[h], amem))

\* reserve_nodes(n) and release_all_to_pool() with UsePool == false: no-ops.
reserve_nodes(h, n) ==
    /\ alive[h]
    /\ op' = Call("reserve_nodes", h, n, 0)
    /\ UNCHANGED <<cmpKind, alive, root, sz, key, left, right, allocd, contents>>

release_all_to_pool(h) ==
    /\ alive[h]
    /\ empty(h)
    /\ op' = Call("release_all_to_pool", h, 0, 0)
    /\ UNCHANGED <<cmpKind, alive, root, sz, key, left, right, allocd, contents>>

\* A slot address outside every block the pool owns: storage already released.
Dangling(ptr) ==
    \A i \in 1..Len(pool.blocks) :
        ptr < pool.blocks[i].ptr \/ ptr >= pool.blocks[i].ptr + pool.blocks[i].count

\* release_all with a fault seeded: the assert is missing from the debug build.
release_all_no_assert ==
    /\ pool' = pool_release_all(pool)
    /\ pcall' = PoolCall("release_all", 0)
    /\ UNCHANGED <<heapTop, handles, ncreate, mdestroy>>

\* pool.release_all(), whatever live() is.  Without NDEBUG,
\* assert(live_ == 0) fails when objects are live and abort() ends the
\* program; with NDEBUG there is no test and the blocks are freed.
release_all_any ==
    IF build = "debug" /\ live(pool) # 0
    THEN /\ pcall' = PoolCall("abort", 0)
         /\ UNCHANGED <<pool, heapTop, handles, ncreate, mdestroy>>
    ELSE /\ pool' = pool_release_all(pool)
         /\ pcall' = PoolCall("release_all", 0)
         /\ UNCHANGED <<heapTop, handles, ncreate, mdestroy>>

\* destroy(p) on an object in released storage is undefined: p->~T() and the
\* calls after it can run on as destroy does, or the program can fault.
destroy_fault(ptr) ==
    /\ ptr \in handles
    /\ Dangling(ptr)
    /\ pcall' = PoolCall("fault", ptr)
    /\ UNCHANGED <<pool, heapTop, handles, ncreate, mdestroy>>

\* create() building its object in a slot in released storage, likewise.
create_fault ==
    /\ pool.free # <<>>
    /\ Dangling(pool.free[Len(pool.free)])
    /\ pcall' = PoolCall("fault", pool.free[Len(pool.free)])
    /\ UNCHANGED <<pool, heapTop, handles, ncreate, mdestroy>>

\* The program has not been ended by abort() or by a fault.
PoolRunning == pcall.name \notin {"abort", "fault"}

\* The sizes grow_ works with, apart from the storage: the capacity the pool
\* was constructed with, next_block_cap_, the blocks allocated so far, and
\* for the last block the capacity found, the slots asked for and the slots
\* allocated; prev is the slot count of the block before it.
GrowthFrom(initial_block_capacity) ==
    [init |-> initial_block_capacity, cap |-> initial_block_capacity, n |-> 0,
     before |-> initial_block_capacity, need |-> 0, count |-> 0, prev |-> 0]

\* One turn of the while loop of grow_ for min_new_slots >= 1: 1 from create()
\* on an empty free list, the deficit from reserve().
grow_sizes(min_new_slots) ==
    /\ sizes.n < MaxBlocks
    /\ sizes' = [sizes EXCEPT !.cap = next_cap(@),
                              !.n = @ + 1,
                              !.before = sizes.cap,
                              !.need = min_new_slots,
                              !.count = block_count(sizes.cap, min_new_slots),
                              !.prev = sizes.count]

\* -------------------------------------------------------------- DSU
\* struct DSU: p[x] < 0 says x is a root and -p[x] the size of its set,
\* p[x] >= 0 is the parent of x.  The elements are 0 .. n - 1.
Elems == 0..(DsuN - 1)

\* explicit DSU(int n = 0) : p(n, -1), and void reset(int n)
DSU(n) == [x \in 0..(n - 1) |-> -1]

\* find: while (p[r] >= 0) r = p[r];
RECURSIVE climb(_, _)
climb(p, r) == IF p[r] >= 0 THEN climb(p, p[r]) ELSE r

\* find: while (x != r) { int up = p[x]; p[x] = r; x = up; }
RECURSIVE compress(_, _, _)
compress(p, x, r) ==
    IF x # r THEN compress([p EXCEPT ![x] = r], p[x], r) ELSE p

\* int find(int x): the root returned, and p after the path compression.
find(p, x) ==
    Only({ [ret |-> r, p |-> compress(p, x, r)] : r \in {climb(p, x)} })

\* unite with a fault seeded: p[a] += p[b] is missing.
unite_no_size(p, a, b) ==
    LET fa == find(p, a)
        fb == find(fa.p, b)
        q  == fb.p
        sw == q[fa.ret] > q[fb.ret]
        a1 == IF sw THEN fb.ret ELSE fa.ret
        b1 == IF sw THEN fa.ret ELSE fb.ret
    IN  IF fa.ret = fb.ret THEN [ret |-> FALSE, p |-> q]
        ELSE [ret |-> TRUE, p |-> [q EXCEPT ![b1] = a1]]

\* bool unite(int a, int b)
unite(p, a, b) ==
    LET fa == find(p, a)
        fb == find(fa.p, b)
        q  == fb.p
        sw == q[fa.ret] > q[fb.ret]
        a1 == IF sw THEN fb.ret ELSE fa.ret
        b1 == IF sw THEN fa.ret ELSE fb.ret
    IN  IF fa.ret = fb.ret THEN [ret |-> FALSE, p |-> q]
        ELSE [ret |-> TRUE, p |-> [q EXCEPT ![a1] = q[a1] + q[b1], ![b1] = a1]]

\* bool same(int a, int b) { return find(a) == find(b); }
same(p, a, b) ==
    LET fa == find(p, a)
        fb == find(fa.p, b)
    IN  [ret |-> fa.ret = fb.ret, p |-> fb.p]

\* int size(int x) { return -p[find(x)]; }
dsu_size(p, x) ==
    LET f == find(p, x) IN [ret |-> -f.p[f.ret], p |-> f.p]

\* The last call: its name, its arguments and the value it returned.
DsuCall(name, a, b, ret) == [name |-> name, a |-> a, b |-> b, ret |-> ret]

\* ------------------------------------------------------ RollbackDSU
\* struct RollbackDSU: the array p as in DSU, and the modification stack stk
\* of (index, previous value) pairs.
RollbackDSU(n) == [p |-> [x \in 0..(n - 1) |-> -1], stk |-> <<>>]

\* int snapshot() const
snapshot(d) == Len(d.stk)

\* void rollback(int t)
RECURSIVE rollback(_, _)
rollback(d, t) ==
    IF Len(d.stk) > t
    THEN LET back == d.stk[Len(d.stk)]
         IN  rollback([p   |-> [d.p EXCEPT ![back[1]] = back[2]],
                       stk |-> SubSeq(d.stk, 1, Len(d.stk) - 1)], t)
    ELSE d

\* int find(int x) const: no path compression.
RECURSIVE rb_find(_, _)
rb_find(p, x) == IF p[x] >= 0 THEN rb_find(p, p[x]) ELSE x

\* unite with a fault seeded: stk.emplace_back(b, p[b]) is missing.
rb_unite_one_record(d, a, b) ==
    LET ra == rb_find(d.p, a)
        rb == rb_find(d.p, b)
        sw == d.p[ra] > d.p[rb]
        a1 == IF sw THEN rb ELSE ra
        b1 == IF sw THEN ra ELSE rb
    IN  IF ra = rb THEN [ret |-> FALSE, d |-> d]
        ELSE [ret |-> TRUE,
              d   |-> [p   |-> [d.p EXCEPT ![a1] = d.p[a1] + d.p[b1], ![b1] = a1],
                       stk |-> d.stk \o << <<a1, d.p[a1]>> >>]]

\* bool unite(int a, int b)
rb_unite(d, a, b) ==
    LET ra == rb_find(d.p, a)
        rb == rb_find(d.p, b)
        sw == d.p[ra] > d.p[rb]
        a1 == IF sw THEN rb ELSE ra
        b1 == IF sw THEN ra ELSE rb
    IN  IF ra = rb THEN [ret |-> FALSE, d |-> d]
        ELSE [ret |-> TRUE,
              d   |-> [p   |-> [d.p EXCEPT ![a1] = d.p[a1] + d.p[b1], ![b1] = a1],
                       stk |-> d.stk \o << <<a1, d.p[a1]>>, <<b1, d.p[b1]>> >>]]

\* bool same(int a, int b) const, int size(int x) const
rb_same(d, a, b) == rb_find(d.p, a) = rb_find(d.p, b)
rb_size(d, x) == -d.p[rb_find(d.p, x)]

\* The last call: its name; the token t snapshot returned or rollback was
\* given; for rollback, the number k of the snapshot and the number n of
\* stack entries it popped.
RbCall(name, t, k, n) == [name |-> name, t |-> t, k |-> k, n |-> n]

\* ------------------------------------------------------- ScopeGuard
\* A ScopeGuard<F> in storage g: alive from its constructor to its destructor,
\* with its members active_ and fn_; the cleanup functions are numbered in
\* the order scope_exit is given them.
Guards == {1, 2}
Funs == 1..MaxGuards
NoGuard == [alive |-> FALSE, active |-> FALSE, fn |-> 0]
GuardCall(name, g, f) == [name |-> name, g |-> g, f |-> f]

\* explicit ScopeGuard(F&& f) noexcept : fn_(std::forward<F>(f)), active_(true)
ScopeGuard(f) == [alive |-> TRUE, active |-> TRUE, fn |-> f]

\* auto guard = kj::scope_exit(f), the guard built in storage g.
scope_exit(g) ==
    /\ ~guards[g].alive
    /\ made < MaxGuards
    /\ made' = made + 1
    /\ guards' = [guards EXCEPT ![g] = ScopeGuard(made + 1)]
    /\ gcall' = GuardCall("scope_exit", g, made + 1)
    /\ UNCHANGED <<ran, dismissedF>>

\* void dismiss() noexcept, called by the owner of the guard.
dismiss(g) ==
    /\ guards[g].alive
    /\ guards' = [guards EXCEPT ![g].active = FALSE]
    /\ dismissedF' = IF guards[g].active
                     THEN [dismissedF EXCEPT ![guards[g].fn] = TRUE]
                     ELSE dismissedF
    /\ gcall' = GuardCall("dismiss", g, guards[g].fn)
    /\ UNCHANGED <<ran, made>>

\* ScopeGuard(ScopeGuard&& other) noexcept: guard g is built from guard o,
\* fn_(std::move(other.fn_)), active_(other.active_), then other.dismiss().
guard_move_construct(g, o) ==
    /\ ~guards[g].alive /\ guards[o].alive
    /\ guards' = [guards EXCEPT ![g] = [alive |-> TRUE, active |-> guards[o].active,
                                        fn |-> guards[o].fn],
                                ![o].active = FALSE]
    /\ gcall' = GuardCall("move_construct", g, guards[o].fn)
    /\ UNCHANGED <<ran, made, dismissedF>>

\* ScopeGuard& operator=(ScopeGuard&& other) noexcept, g = std::move(o): fn_
\* and active_ of g are overwritten, whatever they were.
guard_move_assign(g, o) ==
    /\ guards[g].alive /\ guards[o].alive
    /\ guards' = IF g = o THEN guards
                 ELSE [guards EXCEPT ![g].active = guards[o].active,
                                     ![g].fn = guards[o].fn,
                                     ![o].active = FALSE]
    /\ gcall' = GuardCall("move_assign", g, guards[o].fn)
    /\ UNCHANGED <<ran, made, dismissedF>>

\* guard_destroy with a fault seeded: the test of active_ is missing.
guard_destroy_always(g) ==
    /\ guards[g].alive
    /\ ran' = [ran EXCEPT ![guards[g].fn] = @ + 1]
    /\ guards' = [guards EXCEPT ![g].alive = FALSE]
    /\ gcall' = GuardCall("destroy", g, guards[g].fn)
    /\ UNCHANGED <<made, dismissedF>>

\* ~ScopeGuard() { if (active_) fn_(); }
guard_destroy(g) ==
    /\ guards[g].alive
    /\ ran' = IF guards[g].active THEN [ran EXCEPT ![guards[g].fn] = @ + 1] ELSE ran
    /\ guards' = [guards EXCEPT ![g].alive = FALSE]
    /\ gcall' = GuardCall("destroy", g, guards[g].fn)
    /\ UNCHANGED <<made, dismissedF>>

\* ------------------------------------------------------- two threads
\* Two threads that call create() on one ObjectPool and push() and pop() on
\* one SkewHeap.  A call is the sequence of its reads and writes of the
\* members of the object; pc names the next one, and p, l, r, tmp and v are
\* the locals and temporaries of the call.
Threads == {1, 2}
Idle == [pc |-> "idle", p |-> NULL, l |-> NULL, r |-> NULL, tmp |-> 0, v |-> 0]

\* The store of ++live_ and ++sz_ with a fault seeded: the value loaded is
\* stored back as it is.
store_inc_lost(tmp) == tmp

\* ++live_, ++sz_ and --sz_ are a load and a store of the value loaded plus
\* or minus one.
store_inc(tmp) == tmp + 1
store_dec(tmp) == tmp - 1

\* ------------------------------------------------------- specification
BuildIdle == build = "debug"
SizesIdle == sizes = GrowthFrom(DefaultBlockCapacity)
ArenaIdle ==
    /\ apool = [h \in Heaps |-> ObjectPool(DefaultBlockCapacity)]
    /\ aroot = [h \in Heaps |-> NULL]
    /\ asz = [h \in Heaps |-> 0]
    /\ amem = [key |-> <<>>, left |-> <<>>, right |-> <<>>]
    /\ ares = [status |-> "ok", ret |-> 0]
    /\ amerges = 0
DsuInit ==
    /\ dsu = DSU(DsuN)
    /\ dcall = DsuCall("DSU", DsuN, 0, 0)
RollbackInit ==
    /\ rdsu = RollbackDSU(DsuN)
    /\ snaps = <<>>
    /\ rcall = RbCall("RollbackDSU", 0, 0, 0)
GuardInit ==
    /\ guards = [g \in Guards |-> NoGuard]
    /\ ran = [f \in Funs |-> 0]
    /\ made = 0
    /\ dismissedF = [f \in Funs |-> FALSE]
    /\ gcall = GuardCall("none", 0, 0)
ThreadIdle ==
    /\ sync = "mutex"
    /\ lock = 0
    /\ th = [t \in Threads |-> Idle]
    /\ held = [t \in Threads |-> {}]
    /\ nops = 0
UtilIdle == DsuInit /\ RollbackInit /\ GuardInit /\ ThreadIdle
RestIdle == BuildIdle /\ SizesIdle /\ ArenaIdle /\ UtilIdle

HeapInit ==
    /\ cmpKind \in {"less", "greater"}
    /\ alive = [h \in Heaps |-> TRUE]
    /\ root = [h \in Heaps |-> NULL]
    /\ sz = [h \in Heaps |-> 0]
    /\ key = [n \in Node |-> 0]
    /\ left = [n \in Node |-> NULL]
    /\ right = [n \in Node |-> NULL]
    /\ allocd = {}
    /\ contents = [h \in Heaps |-> EmptyBag]
    /\ op = Call("construct", 1, 0, 0)

CountInit ==
    /\ kpush = [h \in Heaps |-> 0]
    /\ jpop = [h \in Heaps |-> 0]

PoolIdle ==
    /\ pool = ObjectPool(DefaultBlockCapacity)
    /\ heapTop = 0
    /\ handles = {}
    /\ ncreate = 0
    /\ mdestroy = 0
    /\ pcall = PoolCall("ObjectPool", 0)

Init == HeapInit /\ CountInit /\ PoolIdle /\ RestIdle

Push == \E h \in Heaps, v \in Keys : push(h, v) /\ UNCHANGED <<countVars, poolVars, restVars>>
Emplace == \E h \in Heaps, v \in Keys : emplace(h, v) /\ UNCHANGED <<countVars, poolVars, restVars>>
Pop == \E h \in Heaps : pop(h) /\ UNCHANGED <<countVars, poolVars, restVars>>
Top == \E h \in Heaps : topCall(h) /\ UNCHANGED <<countVars, poolVars, restVars>>
Merge == \E h \in Heaps, o \in Heaps : merge(h, o) /\ UNCHANGED <<countVars, poolVars, restVars>>
Clear == \E h \in Heaps : clear(h) /\ UNCHANGED <<countVars, poolVars, restVars>>
Construct == \E h \in Heaps : construct(h) /\ UNCHANGED <<countVars, poolVars, restVars>>
Destruct == \E h \in Heaps : destruct(h) /\ UNCHANGED <<countVars, poolVars, restVars>>
MoveConstruct ==
    \E h \in Heaps, o \in Heaps : move_construct(h, o) /\ UNCHANGED <<countVars, poolVars, restVars>>
MoveAssign ==
    \E h \in Heaps, o \in Heaps : move_assign(h, o) /\ UNCHANGED <<countVars, poolVars, restVars>>

Next ==
    \/ Push \/ Emplace \/ Pop \/ Top \/ Merge \/ Clear
    \/ Construct \/ Destruct \/ MoveConstruct \/ MoveAssign

Spec == Init /\ [][Next]_vars


\* Two freshly constructed heaps driven by push, emplace, pop and top only,
\* with the calls counted.
CountPush ==
    \E h \in Heaps, v \in Keys :
        /\ kpush[h] < MaxPush
        /\ push(h, v)
        /\ kpush' = [kpush EXCEPT ![h] = @ + 1]
        /\ UNCHANGED <<jpop, poolVars, restVars>>
CountEmplace ==
    \E h \in Heaps, v \in Keys :
        /\ kpush[h] < MaxPush
        /\ emplace(h, v)
        /\ kpush' = [kpush EXCEPT ![h] = @ + 1]
        /\ UNCHANGED <<jpop, poolVars, restVars>>
CountPop ==
    \E h \in Heaps :
        /\ pop(h)
        /\ jpop' = [jpop EXCEPT ![h] = @ + 1]
        /\ UNCHANGED <<kpush, poolVars, restVars>>
CountTop == \E h \in Heaps : topCall(h) /\ UNCHANGED <<countVars, poolVars, restVars>>

NextCount == CountPush \/ CountEmplace \/ CountPop \/ CountTop

SpecCount == Init /\ [][NextCount]_vars

\* A fresh pool of any initial block capacity, used on its own.
PoolInit ==
    /\ pool \in {ObjectPool(c) : c \in 0..MaxInitCap}
    /\ heapTop = 0
    /\ handles = {}
    /\ ncreate = 0
    /\ mdestroy = 0
    /\ pcall = PoolCall("ObjectPool", 0)

HeapIdle ==
    /\ cmpKind = "less"
    /\ alive = [h \in Heaps |-> TRUE]
    /\ root = [h \in Heaps |-> NULL]
    /\ sz = [h \in Heaps |-> 0]
    /\ key = [n \in Node |-> 0]
    /\ left = [n \in Node |-> NULL]
    /\ right = [n \in Node |-> NULL]
    /\ allocd = {}
    /\ contents = [h \in Heaps |-> EmptyBag]
    /\ op = Call("construct", 1, 0, 0)

InitPool == HeapIdle /\ CountInit /\ PoolInit /\ RestIdle

Create == create /\ UNCHANGED <<heapVars, countVars, restVars>>
Destroy == \E ptr \in handles : destroy(ptr) /\ UNCHANGED <<heapVars, countVars, restVars>>
DestroyNull == destroy_null /\ UNCHANGED <<heapVars, countVars, restVars>>
Reserve == \E n \in 0..MaxReserve : reserve(n) /\ UNCHANGED <<heapVars, countVars, restVars>>
ReleaseAll == release_all /\ UNCHANGED <<heapVars, countVars, restVars>>

NextPool == Create \/ Destroy \/ DestroyNull \/ Reserve \/ ReleaseAll

SpecPool == InitPool /\ [][NextPool]_vars

\* ------------------------------------------- the pool with failing calls
\* create and reserve, and the same calls left by an exception; a growth
\* fails only while it leaves the pool at most MaxFailBlocks blocks.
PoolFrame == UNCHANGED <<heapVars, countVars, restVars>>
CreateThrow == create_throw /\ PoolFrame
CreateBadAlloc == create_bad_alloc /\ PoolFrame
ReserveBadAlloc == (\E n \in 1..MaxReserve : reserve_bad_alloc(n)) /\ PoolFrame

NextPoolFail ==
    \/ Create \/ Reserve
    \/ CreateThrow \/ CreateBadAlloc \/ ReserveBadAlloc

SpecPoolFail == InitPool /\ [][NextPoolFail]_vars

\* A fresh pool in either build, with release_all() called whatever live()
\* is, and the calls that follow it.
InitPoolAny ==
    /\ HeapIdle /\ CountInit /\ PoolInit
    /\ build \in {"debug", "ndebug"}
    /\ SizesIdle /\ ArenaIdle /\ UtilIdle

AnyFrame == UNCHANGED <<heapVars, countVars, build, sizes, arenaVars, utilVars>>
AnyCreate == PoolRunning /\ (create \/ create_fault) /\ AnyFrame
AnyDestroy ==
    PoolRunning /\ (\E ptr \in handles : destroy(ptr) \/ destroy_fault(ptr)) /\ AnyFrame
AnyDestroyNull == PoolRunning /\ destroy_null /\ AnyFrame
AnyReserve == PoolRunning /\ (\E n \in 0..MaxReserve : reserve(n)) /\ AnyFrame
AnyReleaseAll == PoolRunning /\ release_all_any /\ AnyFrame

NextPoolAny == AnyCreate \/ AnyDestroy \/ AnyDestroyNull \/ AnyReserve \/ AnyReleaseAll

SpecPoolAny == InitPoolAny /\ [][NextPoolAny]_vars

\* The block sizes of one pool, for initial capacities and requests small
\* and around the ceiling 1 << 28.
CapInputs ==
    {0, 1, 3, DefaultBlockCapacity,
     2^BlockCapShift - 1, 2^BlockCapShift, 2^BlockCapShift + 1}
NeedInputs == {1, 2, 2^BlockCapShift + 1}

InitSizes ==
    /\ HeapIdle /\ CountInit /\ PoolIdle /\ BuildIdle /\ ArenaIdle /\ UtilIdle
    /\ sizes \in {GrowthFrom(c) : c \in CapInputs}

GrowSizes ==
    /\ \E need \in NeedInputs : grow_sizes(need)
    /\ UNCHANGED <<heapVars, countVars, poolVars, build, arenaVars, utilVars>>

NextSizes == GrowSizes

SpecSizes == InitSizes /\ [][NextSizes]_vars

\* Two SkewHeapArena objects and two SkewHeap objects under the same
\* comparator (the default, std::less<T>), in either build: every call is made on the pool-backed heap h
\* and on the independently allocating heap h alike.
InitArena ==
    /\ HeapIdle /\ CountInit /\ PoolIdle /\ SizesIdle /\ ArenaIdle /\ UtilIdle
    /\ build \in {"debug", "ndebug"}

ArenaFrame == UNCHANGED <<countVars, poolVars, build, sizes, utilVars>>
NoMerge == UNCHANGED amerges
BothPush ==
    /\ ArenaRunning
    /\ \E h \in Heaps, v \in Keys : push(h, v) /\ arena_push(h, v)
    /\ ArenaFrame /\ NoMerge
BothEmplace ==
    /\ ArenaRunning
    /\ \E h \in Heaps, v \in Keys : emplace(h, v) /\ arena_push(h, v)
    /\ ArenaFrame /\ NoMerge
BothPop == ArenaRunning /\ (\E h \in Heaps : pop(h) /\ arena_pop(h)) /\ ArenaFrame /\ NoMerge
BothTop == ArenaRunning /\ (\E h \in Heaps : topCall(h) /\ arena_top(h)) /\ ArenaFrame /\ NoMerge
\* Merges of two different heaps are followed up to MaxArenaMerges of them.
BothMerge ==
    /\ ArenaRunning
    /\ \E h \in Heaps, o \in Heaps :
           /\ merge(h, o) /\ arena_merge(h, o)
           /\ IF h = o THEN UNCHANGED amerges
              ELSE amerges < MaxArenaMerges /\ amerges' = amerges + 1
    /\ ArenaFrame
BothClear == ArenaRunning /\ (\E h \in Heaps : clear(h) /\ arena_clear(h)) /\ ArenaFrame /\ NoMerge
BothReserveNodes ==
    /\ ArenaRunning
    /\ \E h \in Heaps, n \in 0..MaxReserveNodes :
           reserve_nodes(h, n) /\ arena_reserve_nodes(h, n)
    /\ ArenaFrame /\ NoMerge
BothReleaseAllToPool ==
    /\ ArenaRunning
    /\ \E h \in Heaps : release_all_to_pool(h) /\ arena_release_all_to_pool(h)
    /\ ArenaFrame /\ NoMerge
BothDestruct ==
    ArenaRunning /\ (\E h \in Heaps : destruct(h) /\ arena_destruct(h)) /\ ArenaFrame /\ NoMerge

NextArena ==
    \/ BothPush \/ BothEmplace \/ BothPop \/ BothTop \/ BothMerge \/ BothClear
    \/ BothReserveNodes \/ BothReleaseAllToPool \/ BothDestruct

SpecArena == InitArena /\ [][NextArena]_vars

\* One pool-backed heap on its own, heap 1, beside the independently
\* allocating heap 1 that is given the same calls: no node of another pool
\* ever enters its tree.
OneFrame == ArenaFrame /\ NoMerge
OnePush ==
    ArenaRunning /\ (\E v \in Keys : push(1, v) /\ arena_push(1, v)) /\ OneFrame
OneEmplace ==
    ArenaRunning /\ (\E v \in Keys : emplace(1, v) /\ arena_push(1, v)) /\ OneFrame
OnePop == ArenaRunning /\ pop(1) /\ arena_pop(1) /\ OneFrame
OneTop == ArenaRunning /\ topCall(1) /\ arena_top(1) /\ OneFrame
OneSelfMerge == ArenaRunning /\ merge(1, 1) /\ arena_merge(1, 1) /\ OneFrame
OneClear == ArenaRunning /\ clear(1) /\ arena_clear(1) /\ OneFrame
OneReserveNodes ==
    /\ ArenaRunning
    /\ \E n \in 0..MaxReserveNodes : reserve_nodes(1, n) /\ arena_reserve_nodes(1, n)
    /\ OneFrame
OneReleaseAllToPool ==
    ArenaRunning /\ release_all_to_pool(1) /\ arena_release_all_to_pool(1) /\ OneFrame
OneDestruct == ArenaRunning /\ destruct(1) /\ arena_destruct(1) /\ OneFrame
\* A call that allocation fails: on the independently allocating heap, or on
\* the pool-backed one.
OnePushBadAlloc ==
    /\ ArenaRunning
    /\ \E v \in Keys : push_bad_alloc(1, v)
    /\ UNCHANGED arenaVars /\ ArenaFrame
OneEmplaceBadAlloc ==
    /\ ArenaRunning
    /\ \E v \in Keys : emplace_bad_alloc(1, v)
    /\ UNCHANGED arenaVars /\ ArenaFrame
OneArenaPushBadAlloc ==
    /\ ArenaRunning
    /\ \E v \in Keys :
           /\ arena_push_bad_alloc(1, v)
           /\ op' = Call("pool_push_bad_alloc", 1, v, 0)
    /\ UNCHANGED <<cmpKind, alive, root, sz, key, left, right, allocd, contents>>
    /\ OneFrame

NextArenaOne ==
    \/ OnePush \/ OneEmplace \/ OnePop \/ OneTop \/ OneSelfMerge \/ OneClear
    \/ OneReserveNodes \/ OneReleaseAllToPool \/ OneDestruct

SpecArenaOne == InitArena /\ [][NextArenaOne]_vars

\* The two heaps 1 where allocation can fail: the calls that allocate, the
\* calls that give nodes and blocks back, and the failing calls.
NextAllocFail ==
    \/ OnePush \/ OneEmplace \/ OnePop \/ OneClear \/ OneReleaseAllToPool
    \/ OnePushBadAlloc \/ OneEmplaceBadAlloc \/ OneArenaPushBadAlloc

SpecAllocFail == InitArena /\ [][NextAllocFail]_vars

\* The independently allocating heaps under any calls, top() and pop() on an
\* empty heap among them, in either build.
InitHeapAny ==
    /\ HeapInit /\ CountInit /\ PoolIdle /\ SizesIdle /\ ArenaIdle /\ UtilIdle
    /\ build \in {"debug", "ndebug"}

HeapAnyFrame == UNCHANGED <<countVars, poolVars, restVars>>
AnyPush == HeapRunning /\ Push
AnyEmplace == HeapRunning /\ Emplace
AnyPop == HeapRunning /\ (\E h \in Heaps : pop(h) \/ pop_empty(h)) /\ HeapAnyFrame
AnyTop == HeapRunning /\ (\E h \in Heaps : topCall(h) \/ top_empty(h)) /\ HeapAnyFrame
AnyMerge == HeapRunning /\ Merge
AnyClear == HeapRunning /\ Clear

NextHeapAny == AnyPush \/ AnyEmplace \/ AnyPop \/ AnyTop \/ AnyMerge \/ AnyClear

SpecHeapAny == InitHeapAny /\ [][NextHeapAny]_vars

\* A DSU of DsuN elements under any calls.
InitDsu == HeapIdle /\ CountInit /\ PoolIdle /\ RestIdle

DsuFrame ==
    UNCHANGED <<heapVars, countVars, poolVars, build, sizes, arenaVars,
                rdsuVars, guardVars, threadVars>>
DsuFind ==
    /\ \E x \in Elems : \E r \in {find(dsu, x)} :
           dsu' = r.p /\ dcall' = DsuCall("find", x, x, r.ret)
    /\ DsuFrame
DsuUnite ==
    /\ \E a \in Elems, b \in Elems : \E r \in {unite(dsu, a, b)} :
           dsu' = r.p /\ dcall' = DsuCall("unite", a, b, r.ret)
    /\ DsuFrame
DsuSame ==
    /\ \E a \in Elems, b \in Elems : \E r \in {same(dsu, a, b)} :
           dsu' = r.p /\ dcall' = DsuCall("same", a, b, r.ret)
    /\ DsuFrame
DsuSize ==
    /\ \E x \in Elems : \E r \in {dsu_size(dsu, x)} :
           dsu' = r.p /\ dcall' = DsuCall("size", x, x, r.ret)
    /\ DsuFrame
DsuReset ==
    /\ dsu' = DSU(DsuN)
    /\ dcall' = DsuCall("reset", DsuN, 0, 0)
    /\ DsuFrame

NextDsu == DsuFind \/ DsuUnite \/ DsuSame \/ DsuSize \/ DsuReset

SpecDsu == InitDsu /\ [][NextDsu]_vars

\* A RollbackDSU of DsuN elements under the calls that change it (same and
\* size are const and read p through find); rollback is given the token of
\* a snapshot taken and not rolled back past, or the token 0 of the object
\* as constructed.
InitRollback == HeapIdle /\ CountInit /\ PoolIdle /\ RestIdle

RollbackFrame ==
    UNCHANGED <<heapVars, countVars, poolVars, build, sizes, arenaVars,
                dsuVars, guardVars, threadVars>>
RbSnapshot ==
    /\ Len(snaps) < MaxSnapshots
    /\ snaps' = Append(snaps, [t |-> snapshot(rdsu), p |-> rdsu.p])
    /\ rcall' = RbCall("snapshot", snapshot(rdsu), 0, 0)
    /\ UNCHANGED rdsu
    /\ RollbackFrame
RbRollback ==
    /\ \E k \in 0..Len(snaps) :
           LET t == IF k = 0 THEN 0 ELSE snaps[k].t
           IN  /\ rdsu' = rollback(rdsu, t)
               /\ snaps' = SubSeq(snaps, 1, k)
               /\ rcall' = RbCall("rollback", t, k, Len(rdsu.stk) - t)
    /\ RollbackFrame
RbUnite ==
    /\ \E a \in Elems, b \in Elems : \E r \in {rb_unite(rdsu, a, b)} :
           rdsu' = r.d /\ rcall' = RbCall("unite", 0, 0, 0)
    /\ UNCHANGED snaps
    /\ RollbackFrame
RbReset ==
    /\ rdsu' = RollbackDSU(DsuN)
    /\ snaps' = <<>>
    /\ rcall' = RbCall("reset", 0, 0, 0)
    /\ RollbackFrame

NextRollback == RbSnapshot \/ RbRollback \/ RbUnite \/ RbReset

SpecRollback == InitRollback /\ [][NextRollback]_vars

\* ------------------------------------------------------- ScopeGuard alone
\* Guards made by scope_exit, dismissed by their owner and destroyed at the
\* end of their scope, none of them moved.
InitGuard == HeapIdle /\ CountInit /\ PoolIdle /\ RestIdle

GuardFrame ==
    UNCHANGED <<heapVars, countVars, poolVars, build, sizes, arenaVars,
                dsuVars, rdsuVars, threadVars>>
GuardScopeExit == (\E g \in Guards : scope_exit(g)) /\ GuardFrame
GuardDismiss == (\E g \in Guards : dismiss(g)) /\ GuardFrame
GuardDestroy == (\E g \in Guards : guard_destroy(g)) /\ GuardFrame

NextGuard == GuardScopeExit \/ GuardDismiss \/ GuardDestroy

SpecGuard == InitGuard /\ [][NextGuard]_vars

\* ------------------------------------------------------- ScopeGuard moved
\* The same guards, move-constructed and move-assigned as well.
GuardMoveConstruct ==
    (\E g \in Guards, o \in Guards : guard_move_construct(g, o)) /\ GuardFrame
GuardMoveAssign ==
    (\E g \in Guards, o \in Guards : guard_move_assign(g, o)) /\ GuardFrame

NextGuardMove ==
    \/ GuardScopeExit \/ GuardDismiss \/ GuardDestroy
    \/ GuardMoveConstruct \/ GuardMoveAssign

SpecGuardMove == InitGuard /\ [][NextGuardMove]_vars

\* ------------------------------------------------------- two threads
\* The pool starts with one block of MaxInitCap slots; the two threads
\* either lock one mutex around every call (sync = "mutex") or call without
\* any synchronization (sync = "none").
InitThreads ==
    /\ HeapIdle /\ CountInit
    /\ \E g \in {grow_(ObjectPool(MaxInitCap), MaxInitCap, 0)} :
           pool = g.pool /\ heapTop = g.top
    /\ handles = {} /\ ncreate = 0 /\ mdestroy = 0
    /\ pcall = PoolCall("reserve", MaxInitCap)
    /\ BuildIdle /\ SizesIdle /\ ArenaIdle
    /\ DsuInit /\ RollbackInit /\ GuardInit
    /\ sync \in {"mutex", "none"}
    /\ lock = 0
    /\ th = [t \in Threads |-> Idle]
    /\ held = [t \in Threads |-> {}]
    /\ nops = 0

ThreadFrame ==
    UNCHANGED <<cmpKind, alive, contents, op, handles, ncreate, mdestroy, pcall,
                build, sizes, arenaVars, dsuVars, rdsuVars, guardVars, sync>>
KeepPool == UNCHANGED <<pool, heapTop>>
KeepNodes == UNCHANGED <<key, left, right, allocd>>
KeepHeap == UNCHANGED <<root, sz>> /\ KeepNodes
KeepCounts == UNCHANGED <<kpush, jpop, held, nops>>

\* No thread has run into undefined behaviour; thread t is at pc.
NoUB == \A t \in Threads : th[t].pc # "ub"
At(t, pc) == NoUB /\ th[t].pc = pc
Goto(t, pc) == th' = [th EXCEPT ![t].pc = pc]
\* A read of a dangling pointer, back() or pop_back() on an empty vector.
UB(t) == Goto(t, "ub") /\ UNCHANGED lock
\* The call returns: its locals are gone and the mutex, if held, is released.
Return(t) == th' = [th EXCEPT ![t] = Idle] /\ lock' = 0
Dangling1(n) == n # NULL /\ n \notin allocd

\* Thread t begins a call: with sync = "mutex" it waits for the mutex.  A
\* push is of the least or of the greatest key.
ThBegin ==
    /\ \E t \in Threads, c \in {"create", "push", "pop"}, v \in {1, MaxKey} :
           /\ At(t, "idle")
           /\ nops < MaxThreadOps
           /\ sync = "mutex" => lock = 0
           /\ lock' = IF sync = "mutex" THEN t ELSE 0
           /\ c = "pop" => (root[1] # NULL /\ v = 1)
           /\ c = "create" => v = 1
           /\ th' = [th EXCEPT ![t] = [Idle EXCEPT !.pc = c, !.v = v]]
    /\ nops' = nops + 1
    /\ UNCHANGED <<kpush, jpop, held>>
    /\ KeepPool /\ KeepHeap /\ ThreadFrame

\* create: if (free_.empty()) grow_(1);
ThCreateGrow ==
    /\ \E t \in Threads :
           /\ At(t, "create")
           /\ \E g \in {IF pool.free = <<>> THEN grow_(pool, 1, heapTop)
                         ELSE [pool |-> pool, top |-> heapTop]} :
                  /\ WithinSlots(g)
                  /\ pool' = g.pool /\ heapTop' = g.top
           /\ Goto(t, "create_back")
    /\ UNCHANGED lock /\ KeepHeap /\ KeepCounts /\ ThreadFrame

\* create: T* p = free_.back();
ThCreateBack ==
    /\ \E t \in Threads :
           /\ At(t, "create_back")
           /\ IF pool.free = <<>> THEN UB(t)
              ELSE /\ th' = [th EXCEPT ![t].pc = "create_pop",
                                        ![t].p = pool.free[Len(pool.free)]]
                   /\ UNCHANGED lock
    /\ KeepPool /\ KeepHeap /\ KeepCounts /\ ThreadFrame

\* create: free_.pop_back(); the object is then built in the slot.
ThCreatePop ==
    /\ \E t \in Threads :
           /\ At(t, "create_pop")
           /\ IF pool.free = <<>> THEN UB(t) /\ UNCHANGED pool
              ELSE /\ pool' = [pool EXCEPT !.free = SubSeq(@, 1, Len(@) - 1)]
                   /\ Goto(t, "create_load")
                   /\ UNCHANGED lock
    /\ UNCHANGED heapTop /\ KeepHeap /\ KeepCounts /\ ThreadFrame

\* create: ++live_, the load.
ThCreateLoad ==
    /\ \E t \in Threads :
           /\ At(t, "create_load")
           /\ th' = [th EXCEPT ![t].pc = "create_store", ![t].tmp = pool.live]
    /\ UNCHANGED lock /\ KeepPool /\ KeepHeap /\ KeepCounts /\ ThreadFrame

\* create: ++live_, the store; return p.
ThCreateStore ==
    /\ \E t \in Threads :
           /\ At(t, "create_store")
           /\ pool' = [pool EXCEPT !.live = store_inc(th[t].tmp)]
           /\ held' = [held EXCEPT ![t] = @ \cup {th[t].p}]
           /\ Return(t)
    /\ UNCHANGED <<heapTop, kpush, jpop, nops>> /\ KeepHeap /\ ThreadFrame

\* push: merge_nodes(root_, make_node(v), cmp_), the value not yet assigned.
ThPushMerge ==
    /\ \E t \in Threads :
           /\ At(t, "push")
           /\ IF Dangling1(root[1]) THEN UB(t) /\ KeepNodes
              ELSE \E r \in {push_nodes(root[1], th[t].v, Mem)} :
                       /\ key' = r.mem.key /\ left' = r.mem.left
                       /\ right' = r.mem.right /\ allocd' = r.mem.alloc
                       /\ th' = [th EXCEPT ![t].pc = "push_root", ![t].p = r.root]
                       /\ UNCHANGED lock
    /\ UNCHANGED <<root, sz>> /\ KeepPool /\ KeepCounts /\ ThreadFrame

\* push: root_ = (the value of merge_nodes).
ThPushRoot ==
    /\ \E t \in Threads :
           /\ At(t, "push_root")
           /\ root' = [root EXCEPT ![1] = th[t].p]
           /\ Goto(t, "push_load")
    /\ UNCHANGED <<lock, sz>> /\ KeepNodes /\ KeepPool /\ KeepCounts /\ ThreadFrame

\* push: ++sz_, the load.
ThPushLoad ==
    /\ \E t \in Threads :
           /\ At(t, "push_load")
           /\ th' = [th EXCEPT ![t].pc = "push_store", ![t].tmp = sz[1]]
    /\ UNCHANGED lock /\ KeepPool /\ KeepHeap /\ KeepCounts /\ ThreadFrame

\* push: ++sz_, the store; the call returns.
ThPushStore ==
    /\ \E t \in Threads :
           /\ At(t, "push_store")
           /\ sz' = [sz EXCEPT ![1] = store_inc(th[t].tmp)]
           /\ Return(t)
    /\ kpush' = [kpush EXCEPT ![1] = @ + 1]
    /\ UNCHANGED <<root, jpop, held, nops>> /\ KeepNodes /\ KeepPool /\ ThreadFrame

\* pop: Node* l = root_->left; Node* r = root_->right;
ThPopRead ==
    /\ \E t \in Threads :
           /\ At(t, "pop")
           /\ IF root[1] = NULL \/ Dangling1(root[1]) THEN UB(t)
              ELSE /\ th' = [th EXCEPT ![t].pc = "pop_delete",
                                        ![t].l = left[root[1]],
                                        ![t].r = right[root[1]]]
                   /\ UNCHANGED lock
    /\ KeepPool /\ KeepHeap /\ KeepCounts /\ ThreadFrame

\* pop: delete root_;
ThPopDelete ==
    /\ \E t \in Threads :
           /\ At(t, "pop_delete")
           /\ IF Dangling1(root[1]) THEN UB(t) /\ KeepNodes
              ELSE /\ \E m \in {IF root[1] = NULL THEN Mem ELSE delete_node(root[1], Mem)} :
                          /\ key' = m.key /\ left' = m.left
                          /\ right' = m.right /\ allocd' = m.alloc
                   /\ Goto(t, "pop_merge")
                   /\ UNCHANGED lock
    /\ UNCHANGED <<root, sz>> /\ KeepPool /\ KeepCounts /\ ThreadFrame

\* pop: root_ = merge_nodes(l, r, cmp_);
ThPopMerge ==
    /\ \E t \in Threads :
           /\ At(t, "pop_merge")
           /\ IF Dangling1(th[t].l) \/ Dangling1(th[t].r)
              THEN UB(t) /\ KeepNodes /\ UNCHANGED root
              ELSE \E r \in {merge_nodes(th[t].l, th[t].r, Mem)} :
                       /\ key' = r.mem.key /\ left' = r.mem.left
                       /\ right' = r.mem.right /\ allocd' = r.mem.alloc
                       /\ root' = [root EXCEPT ![1] = r.root]
                       /\ Goto(t, "pop_load")
                       /\ UNCHANGED lock
    /\ UNCHANGED sz /\ KeepPool /\ KeepCounts /\ ThreadFrame

\* pop: --sz_, the load.
ThPopLoad ==
    /\ \E t \in Threads :
           /\ At(t, "pop_load")
           /\ th' = [th EXCEPT ![t].pc = "pop_store", ![t].tmp = sz[1]]
    /\ UNCHANGED lock /\ KeepPool /\ KeepHeap /\ KeepCounts /\ ThreadFrame

\* pop: --sz_, the store; the call returns.
ThPopStore ==
    /\ \E t \in Threads :
           /\ At(t, "pop_store")
           /\ sz' = [sz EXCEPT ![1] = store_dec(th[t].tmp)]
           /\ Return(t)
    /\ jpop' = [jpop EXCEPT ![1] = @ + 1]
    /\ UNCHANGED <<root, kpush, held, nops>> /\ KeepNodes /\ KeepPool /\ ThreadFrame

NextThreads ==
    \/ ThBegin
    \/ ThCreateGrow \/ ThCreateBack \/ ThCreatePop \/ ThCreateLoad \/ ThCreateStore
    \/ ThPushMerge \/ ThPushRoot \/ ThPushLoad \/ ThPushStore
    \/ ThPopRead \/ ThPopDelete \/ ThPopMerge \/ ThPopLoad \/ ThPopStore

SpecThreads == InitThreads /\ [][NextThreads]_vars

\* ------------------------------------------------------------- properties
\* Two sequences sorted under Cmp, merged into one sorted sequence.
RECURSIVE SortedUnion(_, _)
SortedUnion(s, t) ==
    IF s = <<>> THEN t
    ELSE IF t = <<>> THEN s
    ELSE IF Cmp(Head(t), Head(s)) THEN <<Head(t)>> \o SortedUnion(s, Tail(t))
    ELSE <<Head(s)>> \o SortedUnion(Tail(s), t)

SortedUnderCmp(d) == \A i, j \in 1..Len(d) : i < j => ~Cmp(d[j], d[i])

HeapState == <<root, sz, key, left, right, allocd>>

\* C1: whatever calls were made, draining a heap by top()/pop() until empty()
\* reads every stored key exactly once, and no key read later precedes a key
\* read earlier under the comparator.
DrainSortedAndComplete ==
    \A h \in Heaps : alive[h] =>
        LET d == Drain(h)
        IN  /\ SortedUnderCmp(d)
            /\ \A k \in Keys : SeqCount(d, k) = contents[h][k]

\* C1 witness: a max-heap that has been pushed to and popped from and still
\* holds two different keys.
DrainSortedWitness ==
    /\ cmpKind = "greater"
    /\ op.name = "pop"
    /\ sz[op.h] >= 3
    /\ Drain(op.h)[1] > Drain(op.h)[Len(Drain(op.h))]

\* C2: a.merge(b) with a and b distinct: draining a afterwards reads the
\* sorted multiset union of what a and b would have drained before the call.
MergeDrainsUnion ==
    [][\A h, o \in Heaps :
          (h # o /\ op' = Call("merge", h, o, sz[o])) =>
              Drain(h)' = SortedUnion(Drain(h), Drain(o))]_vars

\* C2 witness: a merge of two non-empty heaps whose keys interleave.
MergeDrainsUnionWitness ==
    /\ op.name = "merge" /\ op.h # op.arg
    /\ op.preo >= 2 /\ sz[op.h] >= op.preo + 2
    /\ Drain(op.h)[1] # Drain(op.h)[Len(Drain(op.h))]

\* C3: a.merge(b) with a and b distinct: a.size() becomes the sum of the two
\* sizes, b is left with no root and size 0.
MergeTransfers ==
    [][\A h, o \in Heaps :
          (h # o /\ op' = Call("merge", h, o, sz[o])) =>
              /\ sz'[h] = sz[h] + sz[o]
              /\ root'[o] = NULL
              /\ sz'[o] = 0
              /\ empty(o)']_vars

\* C3 witness: the donor held elements and holds none after the merge.
MergeTransfersWitness ==
    /\ op.name = "merge" /\ op.h # op.arg
    /\ op.preo >= 1 /\ sz[op.h] > op.preo
    /\ empty(op.arg) /\ sz[op.arg] = 0

\* C4: S.merge(S) changes nothing: roots, links, sizes and the drained
\* sequence are as before the call.
SelfMergeNoOp ==
    [][\A h \in Heaps :
          op' = Call("merge", h, h, sz[h]) =>
              /\ UNCHANGED HeapState
              /\ Drain(h)' = Drain(h)]_vars

\* C4 witness: a self-merge of a heap with several elements.
SelfMergeWitness ==
    /\ op.name = "merge" /\ op.h = op.arg
    /\ sz[op.h] >= 3 /\ Len(Drain(op.h)) = sz[op.h]

\* C5: in every heap, no child's key is ranked before its parent's key.
HeapOrdered ==
    \A h \in Heaps : alive[h] =>
        \A n \in TreeNodes(root[h]) :
            /\ left[n] # NULL => ~Cmp(key[left[n]], key[n])
            /\ right[n] # NULL => ~Cmp(key[right[n]], key[n])

\* C5 witness: after a merge, a node with two children, one of them with a
\* key different from its parent's.
HeapOrderedWitness ==
    /\ op.name = "merge" /\ op.h # op.arg /\ op.preo >= 1
    /\ \E n \in TreeNodes(root[op.h]) :
           /\ left[n] # NULL /\ right[n] # NULL
           /\ key[left[n]] # key[n]

\* C7: empty() is true exactly when size() == 0.
EmptyIffSizeZero ==
    \A h \in Heaps : alive[h] => (empty(h) <=> size(h) = 0)

\* C7 witness: a heap popped to exhaustion.
EmptyAfterDrainWitness ==
    /\ op.name = "pop" /\ alive[op.h]
    /\ empty(op.h) /\ size(op.h) = 0

\* C8: top() on a non-empty heap reads a stored key that no stored key
\* precedes, and changes neither the tree nor the size.
TopIsFirst ==
    [][\A h \in Heaps :
          (op'.name = "top" /\ op'.h = h) =>
              /\ UNCHANGED HeapState
              /\ \E n \in TreeNodes(root[h]) : key[n] = op'.arg
              /\ \A n \in TreeNodes(root[h]) : ~Cmp(key[n], op'.arg)]_vars

\* C8 witness: top() read on a heap of several different keys built with a
\* merge.
TopIsFirstWitness ==
    /\ op.name = "top" /\ sz[op.h] >= 3
    /\ \E n \in TreeNodes(root[op.h]) : key[n] # op.arg

\* C6: on a fresh heap, after k push/emplace calls and j pop calls (each pop on
\* a non-empty heap) in any interleaving, size() == k - j.
SizeIsPushesMinusPops ==
    \A h \in Heaps : size(h) = kpush[h] - jpop[h]

\* C6 witness: pushes and pops interleaved: a push that follows two pops.
SizeCountWitness ==
    /\ op.name \in {"push", "emplace"}
    /\ kpush[op.h] >= 3 /\ jpop[op.h] >= 2
    /\ size(op.h) = kpush[op.h] - jpop[op.h]

\* C9: on a fresh pool, after n create() calls and m destroy() calls on live
\* handles, in any interleaving, live() == n - m.
LiveIsCreatesMinusDestroys == live(pool) = ncreate - mdestroy

\* C9 witness: a create that follows a destroy, with objects still live.
LiveCountWitness ==
    /\ pcall.name = "create"
    /\ ncreate >= 3 /\ mdestroy >= 1
    /\ live(pool) = 2

\* C10 as stated: after n create() calls and m destroy() calls,
\* capacity_slots() >= n.
CapacityAtLeastCreates == capacity_slots(pool) >= ncreate

\* C10 as amended: capacity_slots() >= n - m, the number of objects live; a
\* create served from a slot given back by destroy adds no capacity.
CapacityAtLeastLive == capacity_slots(pool) >= ncreate - mdestroy

\* C10 witness: more creates than slots were ever made available.
CapacityReuseWitness ==
    /\ pcall.name = "create"
    /\ mdestroy >= 1
    /\ ncreate > capacity_slots(pool)
    /\ capacity_slots(pool) >= live(pool) /\ live(pool) >= 1

\* ------------------------------------------------- ObjectPool properties
\* C11: each slot of each owned block is either once in the free list or live
\* under exactly one handle, never both; so free slots + live() is the slot
\* count of the owned blocks and no slot is twice in the free list.
SlotsFreeOrLive ==
    /\ \A i, j \in 1..Len(pool.free) : pool.free[i] = pool.free[j] => i = j
    /\ FreeSlots(pool) \cap handles = {}
    /\ FreeSlots(pool) \cup handles = OwnedSlots(pool)
    /\ Cardinality(handles) = live(pool)
    /\ Len(pool.free) + live(pool) = OwnedCount(pool)

\* C11 witness: two blocks owned, a slot given back by destroy in the free
\* list next to slots never used, and objects live.
SlotsFreeOrLiveWitness ==
    /\ Len(pool.blocks) >= 2
    /\ mdestroy >= 1
    /\ live(pool) >= 1
    /\ Len(pool.free) >= 2

\* C12: create() takes exactly one slot off the free list (grown first when
\* it was empty), adds one to live(), and returns that slot, which no handle
\* live at the call refers to.
CreateTakesOneFreshSlot ==
    [][ncreate' # ncreate =>
         LET ptr   == pcall'.arg
             added == OwnedSlots(pool') \ OwnedSlots(pool)
         IN  /\ pcall'.name = "create"
             /\ live(pool') = live(pool) + 1
             /\ ptr \notin handles
             /\ handles' = handles \cup {ptr}
             /\ ptr \in FreeSlots(pool) \cup added
             /\ FreeSlots(pool') = (FreeSlots(pool) \cup added) \ {ptr}
             /\ Len(pool'.free) = Len(pool.free) + Cardinality(added) - 1
             /\ (pool.free # <<>> => added = {})
             /\ (pool.free = <<>> => added # {})]_vars

\* C12 witness: a create served from a free list of several slots while
\* other objects are live, one of them in a slot that was given back before.
CreateTakesOneFreshSlotWitness ==
    /\ pcall.name = "create"
    /\ mdestroy >= 1
    /\ live(pool) >= 2
    /\ Len(pool.free) >= 1
    /\ pcall.arg \in handles

\* C18: reserve(n) leaves at least n free slots, and when the free list held
\* n slots already it changes nothing: no block, capacity_slots(), free list
\* and live() as before; a second reserve(n) in a row adds nothing.
ReserveNotAdditive ==
    [][pcall'.name = "reserve" =>
         /\ Len(pool'.free) >= pcall'.arg
         /\ live(pool') = live(pool)
         /\ (Len(pool.free) >= pcall'.arg => pool' = pool)]_vars

\* C18 witness: reserve(n), n > 0, returned with a single block and exactly
\* the free slots it asked for, so that the same call made again finds them.
ReserveNotAdditiveWitness ==
    /\ pcall.name = "reserve" /\ pcall.arg >= 2
    /\ Len(pool.blocks) = 1
    /\ Len(pool.free) = pcall.arg
    /\ ENABLED reserve(pcall.arg)

\* C20 as stated: when the deficit n - free_.size() exceeds the next block's
\* capacity, one reserve(n) call adds several blocks.
ReserveAddsSeveralBlocks ==
    [][(/\ pcall'.name = "reserve"
        /\ pool.next_block_cap >= 1
        /\ pcall'.arg - Len(pool.free) > pool.next_block_cap)
       => Len(pool'.blocks) >= Len(pool.blocks) + 2]_vars

\* C20 as amended: reserve(n) adds no block when the free list holds n slots
\* and exactly one block otherwise, of the deficit or of the next block's
\* capacity, whichever is larger, so that the one block covers the deficit.
ReserveAddsOneBlock ==
    [][pcall'.name = "reserve" =>
         LET deficit == pcall'.arg - Len(pool.free)
         IN  IF deficit > 0
             THEN /\ Len(pool'.blocks) = Len(pool.blocks) + 1
                  /\ SubSeq(pool'.blocks, 1, Len(pool.blocks)) = pool.blocks
                  /\ LET count == pool'.blocks[Len(pool'.blocks)].count
                     IN  /\ count >= deficit
                         /\ count >= pool.next_block_cap
                         /\ count \in {deficit, pool.next_block_cap}
                         /\ Len(pool'.free) = Len(pool.free) + count
             ELSE pool'.blocks = pool.blocks]_vars

\* C20 witness: a reserve whose deficit was above the next block's capacity
\* (the block it added has more than half of the doubled capacity).
ReserveOneBigBlockWitness ==
    /\ pcall.name = "reserve"
    /\ Len(pool.blocks) >= 1
    /\ pool.next_block_cap >= 2
    /\ pool.blocks[Len(pool.blocks)].count * 2 > pool.next_block_cap

\* C13 as stated: release_all() with live() > 0 is reported and frees no
\* block and leaves the free list, so that every live handle still refers to
\* storage the pool owns.
ReleaseAllWithLiveRefused ==
    [][(pcall'.name \in {"release_all", "abort"} /\ live(pool) # 0) =>
         /\ pcall'.name = "abort"
         /\ pool'.blocks = pool.blocks
         /\ pool'.free = pool.free
         /\ handles' = handles
         /\ \A ptr \in handles' : ~Dangling(ptr)']_vars

\* C13 as amended: in a build without NDEBUG the call fails its assertion,
\* the program is aborted and nothing was freed; in a build with NDEBUG the
\* call is not checked: every block is freed and the free list cleared while
\* live() stays as it was, and the live handles are left dangling.
ReleaseAllWithLiveByBuild ==
    [][(pcall'.name \in {"release_all", "abort"} /\ live(pool) # 0) =>
         IF build = "debug"
         THEN /\ pcall'.name = "abort"
              /\ pool' = pool
              /\ handles' = handles
         ELSE /\ pcall'.name = "release_all"
              /\ pool'.blocks = <<>>
              /\ pool'.free = <<>>
              /\ live(pool') = live(pool)
              /\ handles' = handles
              /\ \A ptr \in handles' : Dangling(ptr)']_vars

\* C13 witness: the assertion failed with objects live in a block that also
\* has free slots.
ReleaseRefusedWitness ==
    /\ pcall.name = "abort"
    /\ build = "debug"
    /\ live(pool) >= 2
    /\ pool.free # <<>>
    /\ handles # {}

\* C19 as stated: the first block has initial_block_capacity slots, each later
\* block twice the slots of the block before it (up to the ceiling), and
\* neither a block's slot count nor next_block_cap_ is above 1 << 28.
BlocksDoubleAndCapped ==
    /\ sizes.n = 1 => sizes.count = sizes.init
    /\ sizes.n >= 2 => sizes.count = Min(2 * sizes.prev, 2^BlockCapShift)
    /\ sizes.n >= 1 => sizes.count <= 2^BlockCapShift
    /\ sizes.n >= 1 => sizes.cap <= 2^BlockCapShift

\* C19 as amended: next_block_cap_ starts at initial_block_capacity and after
\* each block allocated is doubled if it was below 1 << 28 and left alone
\* otherwise, so it stays below 1 << 29 for an initial capacity up to 1 << 28
\* and keeps a larger initial capacity; a block has the larger of
\* next_block_cap_ and the slots asked for (1 by create, the deficit by
\* reserve), which is next_block_cap_ only while no request is above it.
GrowthByCapAndRequest ==
    /\ sizes.n = 0 => sizes.cap = sizes.init
    /\ sizes.n >= 1 =>
           /\ sizes.cap = IF sizes.before < 2^BlockCapShift
                          THEN 2 * sizes.before ELSE sizes.before
           /\ sizes.count >= sizes.before
           /\ sizes.count >= sizes.need
           /\ sizes.count \in {sizes.before, sizes.need}
    /\ sizes.init <= 2^BlockCapShift => sizes.cap < 2 * 2^BlockCapShift
    /\ sizes.init >= 2^BlockCapShift => sizes.cap = sizes.init
    /\ sizes.init \in {2^k : k \in 0..BlockCapShift} => sizes.cap <= 2^BlockCapShift

\* C19 witness: a pool constructed with capacity 3 whose next_block_cap_ has
\* passed the ceiling, and whose last block, asked for one slot, has
\* next_block_cap_'s slots.
GrowthPastCeilingWitness ==
    /\ sizes.init = 3
    /\ sizes.cap > 2^BlockCapShift
    /\ sizes.before = sizes.cap
    /\ sizes.need = 1
    /\ sizes.count = sizes.before

\* ------------------------------------------- pool-backed heap properties
\* C14: a pool-backed heap that is empty has live() == 0 in its pool, so that
\* release_all_to_pool() meets the precondition of release_all() and frees no
\* block that holds a node of any heap.
EmptyArenaHasNoLive ==
    \A h \in Heaps : (alive[h] /\ aroot[h] = NULL) =>
        /\ live(apool[h]) = 0
        /\ \A o \in Heaps : \A n \in ArenaTreeNodes(aroot[o], amem) :
               ~InPool(n, apool[h])

\* C15: a node removed by pop() or clear() goes back to the pool that
\* constructed it, also when it came in by a merge: its slot joins that
\* pool's free list and that pool's live count goes down, no other pool's.
RemovedNodesReturnHome ==
    [][(op'.name \in {"pop", "clear"} /\ ares'.status = "ok") =>
         LET removed == ArenaTreeNodes(aroot[op'.h], amem)
                            \ ArenaTreeNodes(aroot'[op'.h], amem')
         IN  \A b \in Heaps :
                 LET home == {n \in removed : InPool(n, apool[b])}
                 IN  /\ live(apool'[b]) = live(apool[b]) - Cardinality(home)
                     /\ Len(apool'[b].free) = Len(apool[b].free) + Cardinality(home)
                     /\ \A n \in home :
                            \E i \in 1..Len(apool'[b].free) : apool'[b].free[i] = n]_vars

\* C16: whatever is done to the other heap (cleared, its pool storage
\* released, destroyed), every node a live heap reaches from its root and
\* every slot in its pool's free list lies in a block that was not released.
MergedNodesStayValid ==
    \A a \in Heaps : alive[a] =>
        /\ \A n \in ArenaTreeNodes(aroot[a], amem) : Valid(n)
        /\ \A i \in 1..Len(apool[a].free) : Valid(apool[a].free[i])

\* C17: call for call, the pool-backed heap and the independently allocating
\* heap return the same top(), size() and empty().
ArenaMatchesPlain ==
    /\ ares.status = "ok"
    /\ \A h \in Heaps : alive[h] =>
           /\ asz[h] = size(h)
           /\ (aroot[h] = NULL) <=> empty(h)
    /\ op.name = "top" => ares.ret = op.arg

\* ------------------------------------------------ ObjectPool, continued
\* C21: capacity_slots() is cumulative: no call makes it smaller, a call adds
\* to it exactly the slot counts of the blocks it allocates, and destroy, a
\* create served from the free list and release_all leave it as it was.
CapacityCumulative ==
    [][LET n     == pcall'.name
           kept  == Len(pool.blocks)
           fresh == IF n = "release_all" THEN <<>>
                    ELSE SubSeq(pool'.blocks, kept + 1, Len(pool'.blocks))
       IN  /\ capacity_slots(pool') >= capacity_slots(pool)
           /\ capacity_slots(pool') = capacity_slots(pool) + SumCounts(fresh)
           /\ (n # "release_all" =>
                   SubSeq(pool'.blocks, 1, kept) = pool.blocks)
           /\ (n = "destroy" => capacity_slots(pool') = capacity_slots(pool))
           /\ (n = "release_all" =>
                   capacity_slots(pool') = capacity_slots(pool))
           /\ (n = "create" /\ pool.free # <<>> =>
                   capacity_slots(pool') = capacity_slots(pool))
           /\ (n = "create" /\ pool.free = <<>> =>
                   capacity_slots(pool') > capacity_slots(pool))]_vars

\* C21 witness: release_all has freed every block of a pool that had grown
\* more than once, and capacity_slots() still counts their slots.
CapacityCumulativeWitness ==
    /\ pcall.name = "release_all"
    /\ pool.blocks = <<>> /\ pool.free = <<>>
    /\ mdestroy >= 1
    /\ capacity_slots(pool) >= 3

\* C22: destroy(p) on a live handle pushes exactly that slot on the free list
\* and takes one off live(), the blocks and capacity_slots() as before;
\* destroy(nullptr) changes nothing of the pool.
DestroyReturnsOneSlot ==
    [][pcall'.name = "destroy" =>
         LET ptr == pcall'.arg
         IN  IF ptr = NULL
             THEN /\ pool' = pool
                  /\ handles' = handles
             ELSE /\ ptr \in handles
                  /\ pool'.free = Append(pool.free, ptr)
                  /\ live(pool') = live(pool) - 1
                  /\ capacity_slots(pool') = capacity_slots(pool)
                  /\ pool'.blocks = pool.blocks
                  /\ pool'.next_block_cap = pool.next_block_cap
                  /\ handles' = handles \ {ptr}]_vars

\* C22 witness: a live handle was destroyed while another object stays live
\* and other slots are free; its slot is the last of the free list.
DestroyReturnsOneSlotWitness ==
    /\ pcall.name = "destroy" /\ pcall.arg # NULL
    /\ Len(pool.free) >= 2
    /\ pool.free[Len(pool.free)] = pcall.arg
    /\ live(pool) >= 1
    /\ pcall.arg \notin handles

\* ------------------------------------------------------ heap structure
\* The nodes reached from the set S of nodes through left and right links,
\* computed as a fixed point, so that it is defined on a graph with a cycle.
RECURSIVE Reach(_)
Reach(S) ==
    LET T == S \cup (({left[n] : n \in S} \cup {right[n] : n \in S}) \ {NULL})
    IN  IF T = S THEN S ELSE Reach(T)

\* The nodes of heap h: those reached from root_.
HeapNodes(h) == Reach({root[h]} \ {NULL})

\* The links that point at node n: a left or right link of an allocated node.
ParentLinks(n) ==
    {<<p, "left">> : p \in {q \in allocd : left[q] = n}}
        \cup {<<p, "right">> : p \in {q \in allocd : right[q] = n}}

\* C23: each node belongs to exactly one heap.  What root_ reaches is a binary
\* tree (no link points at the root, exactly one at each other node, so
\* there is neither a cycle nor a node with two parents), the trees of the
\* two heaps share no node, a tree has size() nodes, and no allocated node
\* is outside both trees.
NodesInOneHeap ==
    /\ \A h \in Heaps :
           /\ HeapNodes(h) \subseteq allocd
           /\ Cardinality(HeapNodes(h)) = size(h)
           /\ \A n \in HeapNodes(h) :
                  Cardinality(ParentLinks(n)) = (IF n = root[h] THEN 0 ELSE 1)
    /\ HeapNodes(1) \cap HeapNodes(2) = {}
    /\ allocd = HeapNodes(1) \cup HeapNodes(2)

\* C23 witness: after a merge that moved several nodes into a heap that
\* had some, a push on the emptied source: both heaps hold nodes, and one
\* node of the destination has two children.
NodesInOneHeapWitness ==
    /\ op.name = "push"
    /\ alive[1] /\ alive[2]
    /\ size(1) >= 1 /\ size(2) >= 1
    /\ size(1) + size(2) = MaxNodes
    /\ \E n \in allocd : left[n] # NULL /\ right[n] # NULL

\* --------------------------------------------- pool-backed heap, continued
\* The slots a call pushed on the free list of pool_ of heap h, in order.
Returned(h) ==
    SubSeq(apool'[h].free, Len(apool[h].free) + 1, Len(apool'[h].free))

FailedPushLeavesHeap ==
    [][/\ (op'.name \in {"push_bad_alloc", "emplace_bad_alloc"} =>
               /\ <<root, sz, key, left, right, allocd>>' =
                      <<root, sz, key, left, right, allocd>>
               /\ contents' = contents)
       /\ (op'.name = "pool_push_bad_alloc" =>
               /\ ares'.status = "bad_alloc"
               /\ <<aroot, asz, amem>>' = <<aroot, asz, amem>>)]_vars

\* C25 witness: a push on a pool-backed heap that holds nodes was left by
\* std::bad_alloc while the pool was growing, and the pool keeps the block
\* of the failed growth.
FailedPushLeavesHeapWitness ==
    /\ op.name = "pool_push_bad_alloc"
    /\ ares.status = "bad_alloc"
    /\ aroot[1] # NULL /\ asz[1] >= 1
    /\ Len(apool[1].blocks) >= 2
    /\ capacity_slots(apool[1]) < OwnedCount(apool[1])

\* ----------------------------------------------- calls on an empty heap
\* C26: top() or pop() on an empty heap is refused: it leaves size() and
\* every node as they were, and in a build with assertions it ends in a
\* failed assertion.
EmptyTopPopRefused ==
    [][(op'.name \in {"pop", "top", "pop_fault", "top_fault"} /\ empty(op'.h)) =>
         /\ sz' = sz
         /\ <<root, key, left, right, allocd>>' = <<root, key, left, right, allocd>>
         /\ (build = "debug" => op'.name = "abort")]_vars

\* ------------------------------------------------------- reserve_nodes
\* C27: reserve_nodes(n) changes nothing a caller of the heap can observe:
\* not the tree, the keys, size() or top().  The independently allocating
\* heap is left as it was altogether.  The pool-backed heap's pool is left
\* as pool_.reserve(n) leaves it, with n free slots or more and live() as
\* before; and a push that finds a free slot takes it and adds no block, so
\* that the n pushes that follow are served from the free list.
ReserveNodesKeepsHeap ==
    [][/\ (op'.name = "reserve_nodes" =>
               LET h == op'.h
                   n == op'.arg
               IN  /\ <<root, sz, key, left, right, allocd, contents>>' =
                          <<root, sz, key, left, right, allocd, contents>>
                   /\ <<aroot, asz, amem>>' = <<aroot, asz, amem>>
                   /\ Len(apool'[h].free) >= n
                   /\ live(apool'[h]) = live(apool[h])
                   /\ (Len(apool[h].free) >= n => apool' = apool)
                   /\ \A o \in Heaps \ {h} : apool'[o] = apool[o])
       /\ (op'.name \in {"push", "emplace"} /\ apool[op'.h].free # <<>> =>
               /\ apool'[op'.h].blocks = apool[op'.h].blocks
               /\ capacity_slots(apool'[op'.h]) = capacity_slots(apool[op'.h])
               /\ Len(apool'[op'.h].free) = Len(apool[op'.h].free) - 1)]_vars

\* C27 witness: reserve_nodes(n), n > 0, was called on heaps that hold
\* nodes, and the pool has the n free slots.
ReserveNodesKeepsHeapWitness ==
    /\ op.name = "reserve_nodes" /\ op.arg >= 1
    /\ root[op.h] # NULL /\ aroot[op.h] # NULL
    /\ size(op.h) >= 2 /\ asz[op.h] >= 2
    /\ Len(apool[op.h].free) >= op.arg
    /\ live(apool[op.h]) = asz[op.h]

\* ---------------------------------------------------------------- DSU
\* The set of x in array p: the elements that climb to the same root.
SetOf(p, x) == {y \in DOMAIN p : climb(p, y) = climb(p, x)}
Partition(p) == {SetOf(p, x) : x \in DOMAIN p}
\* The size the root of x records.
RootSize(p, x) == -p[climb(p, x)]

\* In every reachable state size(x) is the number of elements y with
\* same(x, y).
SizeCountsTheSet ==
    \A x \in Elems :
        /\ dsu_size(dsu, x).ret = RootSize(dsu, x)
        /\ RootSize(dsu, x) = Cardinality(SetOf(dsu, x))
        /\ \A y \in Elems : same(dsu, x, y).ret = (y \in SetOf(dsu, x))

\* C29: unite(a, b) returns true exactly when a and b were in different
\* sets; after true the two sets are one, of the sum of their sizes, and the
\* other sets are as before; after false the partition is as before.  And
\* size(x) always counts the elements y with same(x, y).
UniteJoinsTwoSets ==
    /\ []SizeCountsTheSet
    /\ [][dcall'.name = "unite" =>
            LET a == dcall'.a
                b == dcall'.b
                A == SetOf(dsu, a)
                B == SetOf(dsu, b)
            IN  /\ dcall'.ret = (A # B)
                /\ IF dcall'.ret
                   THEN /\ Partition(dsu') = (Partition(dsu) \ {A, B}) \cup {A \cup B}
                        /\ same(dsu', a, b).ret
                        /\ dsu_size(dsu', a).ret = RootSize(dsu, a) + RootSize(dsu, b)
                        /\ \A x \in Elems \ (A \cup B) :
                               /\ SetOf(dsu', x) = SetOf(dsu, x)
                               /\ RootSize(dsu', x) = RootSize(dsu, x)
                   ELSE Partition(dsu') = Partition(dsu)]_vars

\* C29 witness: unite returned true on two sets of two elements each, one of
\* them with the smaller root index, leaving one set of four.
UniteJoinsTwoSetsWitness ==
    /\ dcall.name = "unite" /\ dcall.ret = TRUE
    /\ RootSize(dsu, dcall.a) = 4
    /\ \E x \in Elems : dsu[x] >= 0 /\ dsu[dsu[x]] >= 0

\* -------------------------------------------------------- RollbackDSU
\* C28: rollback(t), t the token of a snapshot with any unites and nested
\* snapshot/rollback pairs since, leaves p exactly as it was when the
\* snapshot was taken and the modification stack at length t, so that
\* same() and size() answer as they did then; rollback to the token of the
\* object as constructed leaves every element a singleton.
RollbackRestoresSnapshot ==
    [][rcall'.name = "rollback" =>
         LET t    == rcall'.t
             k    == rcall'.k
             then == IF k = 0 THEN RollbackDSU(DsuN).p ELSE snaps[k].p
         IN  /\ rdsu'.p = then
             /\ Len(rdsu'.stk) = t
             /\ rdsu'.stk = SubSeq(rdsu.stk, 1, t)
             /\ \A x \in Elems :
                    /\ rb_size(rdsu', x) = -then[rb_find(then, x)]
                    /\ \A y \in Elems :
                           rb_same(rdsu', x, y) = (rb_find(then, x) = rb_find(then, y))
             /\ (t = 0 => \A x \in Elems : rb_size(rdsu', x) = 1)]_vars

\* C28 witness: a rollback to the first of two snapshots undid several
\* unites, among them unites made after the second snapshot, and went
\* back to a state that had sets joined already.
RollbackRestoresSnapshotWitness ==
    /\ rcall.name = "rollback"
    /\ rcall.k = 1 /\ rcall.t >= 2
    /\ rcall.n >= 4
    /\ Len(snaps) = 1
    /\ \E x \in Elems : rb_size(rdsu, x) = 2

\* The guards that hold cleanup function f now.
Holders(f) == {g \in Guards : guards[g].alive /\ guards[g].fn = f}

\* C30: the function f given to scope_exit has not run while the guard made
\* for it is alive; once that guard is destroyed f has run exactly once if
\* dismiss() was never called on the guard, and has not run at all if it was.
GuardRunsOnceUnlessDismissed ==
    \A f \in 1..made :
        IF Holders(f) # {}
        THEN ran[f] = 0
        ELSE ran[f] = (IF dismissedF[f] THEN 0 ELSE 1)

\* C30 witness: one guard was destroyed undismissed and its function ran, a
\* second was dismissed and then destroyed, and a third is still alive.
GuardRunsOnceUnlessDismissedWitness ==
    /\ gcall.name = "destroy"
    /\ \E f1 \in 1..made, f2 \in 1..made, f3 \in 1..made :
           /\ Holders(f1) = {} /\ ~dismissedF[f1] /\ ran[f1] = 1
           /\ Holders(f2) = {} /\ dismissedF[f2] /\ ran[f2] = 0
           /\ Holders(f3) # {} /\ ran[f3] = 0

\* ------------------------------------------------------- merge_nodes
\* The nodes of the tree under n in store m, the tree as a term of its keys
\* (addresses left out), and heap order of the tree under n.
RECURSIVE TreeNodesIn(_, _)
TreeNodesIn(n, m) ==
    IF n = NULL THEN {}
    ELSE {n} \cup TreeNodesIn(m.left[n], m) \cup TreeNodesIn(m.right[n], m)

RECURSIVE Shape(_, _)
Shape(n, m) ==
    IF n = NULL THEN <<>>
    ELSE <<m.key[n], Shape(m.left[n], m), Shape(m.right[n], m)>>

OrderedIn(n, m) ==
    \A x \in TreeNodesIn(n, m) :
        /\ m.left[x] # NULL => ~Cmp(m.key[m.left[x]], m.key[x])
        /\ m.right[x] # NULL => ~Cmp(m.key[m.right[x]], m.key[x])

\* C31: in every merge of one heap into another, merge_nodes(a, b) on the two
\* roots returns the other tree untouched when one is absent; otherwise the
\* result root is b's root only if cmp(b.key, a.key) and a's root if not, its
\* new left child is the root of merge_nodes(its old right child, the other
\* tree), its new right child is its old left child, and no other link, key
\* or allocation differs from what that inner call left; the result is
\* heap-ordered, holds exactly the nodes of both trees, and is the tree the
\* destination heap has after the call.
MergeNodesSkewSteps ==
    [][(op'.name = "merge" /\ op'.h # op'.arg) =>
         \E a \in {root[op'.h]}, b \in {root[op'.arg]}, m \in {Mem} :
         \E r \in {merge_nodes(a, b, m)} :
             /\ a = NULL => (r.root = b /\ r.mem = m)
             /\ (a # NULL /\ b = NULL) => (r.root = a /\ r.mem = m)
             /\ (a # NULL /\ b # NULL) =>
                    \E t \in {IF Cmp(m.key[b], m.key[a]) THEN b ELSE a} :
                    \E q \in {merge_nodes(m.right[t], IF t = a THEN b ELSE a, m)} :
                        /\ r.root = t
                        /\ r.mem.left[t] = q.root
                        /\ r.mem.right[t] = m.left[t]
                        /\ \A n \in Node \ {t} :
                               /\ r.mem.left[n] = q.mem.left[n]
                               /\ r.mem.right[n] = q.mem.right[n]
                        /\ r.mem.key = m.key
                        /\ r.mem.alloc = m.alloc
             /\ OrderedIn(r.root, r.mem)
             /\ TreeNodesIn(r.root, r.mem) = TreeNodesIn(a, m) \cup TreeNodesIn(b, m)
             /\ \E m2 \in {Mem'} : Shape(root'[op'.h], m2) = Shape(r.root, r.mem)
             /\ root'[op'.arg] = NULL]_vars

\* C31 witness: a merge of a heap of two nodes into a heap of two nodes has
\* left a root with both children, one of them with a child of its own.
MergeNodesSkewStepsWitness ==
    /\ op.name = "merge" /\ op.h # op.arg
    /\ op.preo = 2 /\ sz[op.h] = 4
    /\ left[root[op.h]] # NULL /\ right[root[op.h]] # NULL
    /\ \E n \in {left[root[op.h]], right[root[op.h]]} :
           left[n] # NULL \/ right[n] # NULL

\* The number of nodes on the right spine of the tree under n.
RECURSIVE RightSpine(_, _)
RightSpine(n, m) == IF n = NULL THEN 0 ELSE 1 + RightSpine(m.right[n], m)

\* The pairs of disjoint trees merge_nodes can be given now: the roots of two
\* different heaps (merge), the two children of a root (pop).
MergeInputs ==
    {<<root[hp[1]], root[hp[2]]>> : hp \in {x \in Heaps \X Heaps : x[1] # x[2]}}
        \cup {<<left[root[h]], right[root[h]]>> : h \in {g \in Heaps : root[g] # NULL}}

\* C32: merge_nodes(a, b) on two disjoint trees returns, and the calls nested
\* inside one another number at most the nodes on a's right spine plus the
\* nodes on b's right spine plus one.
MergeNodesDepthBounded ==
    \A ab \in MergeInputs : \E m \in {Mem} :
        \E c \in {merge_calls(ab[1], ab[2], m, 1)} :
            /\ c >= 1
            /\ c <= RightSpine(ab[1], m) + RightSpine(ab[2], m) + 1

\* C32 witness: two heaps whose merge takes three nested calls and walks
\* down a right link on the way, their right spines having three nodes.
MergeNodesDepthBoundedWitness ==
    \E h \in Heaps : \E o \in Heaps \ {h} :
        /\ merge_calls(root[h], root[o], Mem, 1) = 3
        /\ RightSpine(root[h], Mem) + RightSpine(root[o], Mem) = 3
        /\ \E n \in {root[h], root[o]} : n # NULL /\ right[n] # NULL

\* C33: release_all() on a pool with live() == 0 leaves no block and an empty
\* free list, live() 0 and the next-block capacity as it was; on a pool so
\* released the next create, or reserve of at least one slot, adds exactly
\* one block, of max(next-block capacity, request) slots, all of them free
\* but the one create returns, and the capacity grows on from there.
ReleaseAllLeavesPoolUsable ==
    [][LET n    == pcall'.name
           need == IF n = "create" THEN 1 ELSE pcall'.arg
       IN  /\ (n = "release_all" =>
                   /\ pool'.blocks = <<>>
                   /\ pool'.free = <<>>
                   /\ live(pool') = 0
                   /\ pool'.next_block_cap = pool.next_block_cap)
           /\ (/\ pool.blocks = <<>> /\ pool.total_slots > 0
               /\ n \in {"create", "reserve"} /\ need > 0
               =>  /\ pool.free = <<>>
                   /\ Len(pool'.blocks) = 1
                   /\ pool'.blocks[1].count = Max(pool.next_block_cap, need)
                   /\ pool'.blocks[1].ptr = heapTop + 1
                   /\ pool'.next_block_cap = next_cap(pool.next_block_cap)
                   /\ (n = "reserve" =>
                           /\ Len(pool'.free) = pool'.blocks[1].count
                           /\ live(pool') = 0)
                   /\ (n = "create" =>
                           /\ Len(pool'.free) = pool'.blocks[1].count - 1
                           /\ live(pool') = 1
                           /\ pcall'.arg \in BlockSlots(pool'.blocks[1])
                           /\ pcall'.arg > heapTop))]_vars

\* C33 witness: the first create after a release_all took its slot from a
\* fresh block of two slots or more, the pool having grown before the
\* release.
ReleaseAllLeavesPoolUsableWitness ==
    /\ pcall.name = "create"
    /\ Len(pool.blocks) = 1
    /\ pool.blocks[1].count >= 2
    /\ pool.total_slots > pool.blocks[1].count
    /\ Len(pool.free) = pool.blocks[1].count - 1
    /\ live(pool) = 1

\* The slots of pool p that hold a constructed Node.
Constructed(p) == {n \in DOMAIN amem.key : InPool(n, p)}

\* C34: pop() and clear() of a pool-backed heap never apply pool destroy to a
\* pool whose live() is 0: live() of the heap's pool is at least the number
\* of nodes the call destroys, so it does not wrap below 0 (live_ is a
\* std::size_t; a value below 0 here stands for the wrapped one), and after
\* the call live() of each pool is the number of its slots that hold a Node.
ArenaLiveNeverWraps ==
    [][(op'.name \in {"pop", "clear"} /\ ares'.status = "ok") =>
         LET removed == ArenaTreeNodes(aroot[op'.h], amem)
                            \ ArenaTreeNodes(aroot'[op'.h], amem')
         IN  /\ live(apool[op'.h]) >= Cardinality(removed)
             /\ \A h \in Heaps :
                    /\ live(apool'[h]) >= 0
                    /\ live(apool'[h]) = Cardinality(Constructed(apool[h])')]_vars

\* C35: a create left by an exception of the constructor, or a create or
\* reserve left by std::bad_alloc part-way through grow_, loses no slot:
\* live() is as before, free slots plus live() is the slot count of the
\* owned blocks if it was before, and capacity_slots() has grown by the
\* slots of the blocks added.
FailedCreateLosesNoSlot ==
    [][(pcall'.name \in {"create_throw", "create_bad_alloc", "reserve_bad_alloc"}) =>
         /\ live(pool') = live(pool)
         /\ (Len(pool.free) + live(pool) = OwnedCount(pool) =>
                 Len(pool'.free) + live(pool') = OwnedCount(pool'))
         /\ capacity_slots(pool') - capacity_slots(pool) =
                OwnedCount(pool') - OwnedCount(pool)]_vars

\* ------------------------------------------------------- moving a heap
\* C36: move construction gives the new heap the tree and size of the source
\* and leaves the source with no root and size 0, no node made or deleted;
\* move assignment from another heap deletes exactly the nodes the
\* destination held, then does the same; move assignment from itself
\* changes nothing.  A destroyed heap has no root, every allocated node is
\* in the tree of one heap, and when no heap is left no node is.
MoveTransfersOwnership ==
    /\ [](/\ \A h \in Heaps : ~alive[h] => (root[h] = NULL /\ sz[h] = 0)
          /\ allocd = TreeNodes(root[1]) \cup TreeNodes(root[2])
          /\ TreeNodes(root[1]) \cap TreeNodes(root[2]) = {}
          /\ ((\A h \in Heaps : ~alive[h]) => allocd = {}))
    /\ [][(op'.name \in {"move_construct", "move_assign"}) =>
            \E h \in {op'.h}, o \in {op'.arg}, m \in {Mem}, m2 \in {Mem'} :
                IF h = o
                THEN <<root, sz, key, left, right, allocd, alive>>' =
                         <<root, sz, key, left, right, allocd, alive>>
                ELSE /\ Shape(root'[h], m2) = Shape(root[o], m)
                     /\ sz'[h] = sz[o]
                     /\ root'[o] = NULL /\ sz'[o] = 0
                     /\ alive'[h] /\ alive'[o]
                     /\ Cardinality(allocd') =
                            Cardinality(allocd) - Cardinality(TreeNodesIn(root[h], m))
                     /\ Cardinality(allocd') = Cardinality(TreeNodesIn(root[o], m))]_vars

\* C36 witness: a move assignment has given a heap the three nodes of
\* another, which is left empty, and these are all the nodes there are.
MoveTransfersOwnershipWitness ==
    /\ op.name = "move_assign" /\ op.h # op.arg
    /\ op.preo = 3 /\ sz[op.h] = 3 /\ Cardinality(allocd) = 3
    /\ root[op.arg] = NULL /\ sz[op.arg] = 0
    /\ left[root[op.h]] # NULL

\* C37: with guards moved, a cleanup function the caller has not dismissed
\* either has run exactly once or is held by one active guard that will run
\* it; one the caller has dismissed has not run; none has run twice.
GuardCleanupSurvivesMoves ==
    \A f \in 1..made :
        LET owners == {g \in Guards : guards[g].alive /\ guards[g].active
                                        /\ guards[g].fn = f}
        IN  /\ ran[f] <= 1
            /\ Cardinality(owners) <= 1
            /\ (dismissedF[f] => ran[f] = 0)
            /\ (~dismissedF[f] => (ran[f] = 1) # (owners # {}))

\* ------------------------------------------------------- two threads
AllIdle == \A t \in Threads : th[t].pc = "idle"

\* C38: when the two threads lock a mutex around every call on the pool and
\* the heap, no call runs into undefined behaviour, no slot is returned to
\* both threads or returned while it is still free, and between calls live()
\* is the number of slots returned, size() is the pushes less the pops and
\* the number of nodes of the tree, and no node is outside the tree.  (That
\* without the mutex a slot is returned to both threads and updates of
\* live() and size() are lost is the state of the witness.)
SerializedCallsAreSafe ==
    sync = "mutex" =>
        /\ NoUB
        /\ Cardinality({t \in Threads : th[t].pc # "idle"}) <= 1
        /\ held[1] \cap held[2] = {}
        /\ (held[1] \cup held[2]) \cap FreeSlots(pool) = {}
        /\ (AllIdle =>
               /\ live(pool) = Cardinality(held[1]) + Cardinality(held[2])
               /\ Len(pool.free) + live(pool) = OwnedCount(pool)
               /\ sz[1] = kpush[1] - jpop[1]
               /\ sz[1] = Cardinality(TreeNodes(root[1]))
               /\ allocd = TreeNodes(root[1]))

\* C38 witness: without the mutex, two create() calls have returned the same
\* slot to both threads and counted one live object, and two push() calls
\* have returned with size() one short of the pushes made.
SerializedCallsAreSafeWitness ==
    /\ sync = "none" /\ AllIdle /\ NoUB
    /\ held[1] = held[2] /\ Cardinality(held[1]) = 1
    /\ live(pool) = 1
    /\ kpush[1] = 2 /\ jpop[1] = 0 /\ sz[1] = 1

====
